---- MODULE Spec2Model ----
(***************************************************************************)
(* The durable job queues of the-gargantuan-backend.                       *)
(*                                                                         *)
(* Two job documents live in the object store, each a whole-document       *)
(* read-modify-write blob {queue, items}:                                  *)
(*   - the video queue (meta/_video_jobs.json), served by processVideoOnce *)
(*     on a 5 s timer and by POST /api/video/process-now;                  *)
(*   - the shorts queue (meta/_shorts_jobs.json), served by workerOnce on  *)
(*     an 8 s timer and by POST /api/shorts/process-now.                   *)
(* Every handler is an async function: it suspends at each store read,     *)
(* store write and render, and other handlers run in between.  A handler   *)
(* is modelled as a slot with a program counter and its local `jobs`       *)
(* object; one action is one run of the handler between two suspensions.   *)
(***************************************************************************)
EXTENDS Integers, Sequences, FiniteSets, TLC

\* ---------------------------------------------------------------- bounds
MaxJobs  == 2      \* ids handed out by uid() per queue
MaxTicks == 2      \* timer invocations of one worker function that may overlap
MaxForce == 1      \* process-now calls made in a run
MaxInFlight == 2   \* handlers suspended at the same time
MaxNow   == 16000  \* last clock value (ms)
MaxAttempt == 12   \* largest attempt number backoffMs is called with
MaxSegs  == 3      \* segments of a transcript
MaxTime  == 3      \* last segment boundary (s)
MaxChars == 3      \* largest maxChars mergeSegments is called with
MaxText  == 3      \* longest caption or title given to the escaping functions
MaxHalf  == 12     \* latest segment boundary given to the clip window (half s)
MaxMetaInFlight == 2  \* metadata handlers suspended at an await at once
Quantum  == 8000   \* clock step (ms)

\* ------------------------------------------------------- program constants
MAX_RETRIES == 3
BackoffBase == 2000
BackoffCap  == 60000
DefaultMaxSeconds == 45

Undefined == "undefined"

\* an `output` that has not been set (a key is never empty)
NoKey == << >>

JobIds  == 1..MaxJobs
Ticks   == 1..MaxTicks

\* String(e) of the failures a render can raise
Errors == {"Error: ffmpeg exited with code 1"}

\* ------------------------------------------------------------------ strings
\* A key is a sequence of one-character strings.
AudioTestKey ==
  << "a","u","d","i","o","/","1","7","0","0","0","0","0","0","0","0","-",
     "t","e","s","t",".","m","p","3" >>
DottedDirKey == << "a",".","b","/","c" >>

SourceKeys == { AudioTestKey, DottedDirKey }

\* keys enqueued on the video queue
VideoKeys == { AudioTestKey }

RECURSIVE LastIndexOf(_, _, _)
LastIndexOf(s, c, i) ==
  IF i = 0 THEN 0
  ELSE IF s[i] = c THEN i ELSE LastIndexOf(s, c, i - 1)

RECURSIVE StripTrailingSep(_)
StripTrailingSep(s) ==
  IF Len(s) > 0 /\ s[Len(s)] = "/" THEN StripTrailingSep(SubSeq(s, 1, Len(s) - 1))
  ELSE s

\* path.basename(key)
Basename(key) ==
  LET s == StripTrailingSep(key)
      i == LastIndexOf(s, "/", Len(s))
  IN  SubSeq(s, i + 1, Len(s))

\* b.replace(/\.[^/.]+$/, '')
StripExt(b) ==
  LET i == LastIndexOf(b, ".", Len(b))
  IN  IF i > 0 /\ i < Len(b) THEN SubSeq(b, 1, i - 1) ELSE b

\* renderSpectralVideo: `video/${base}.mp4`
VideoOutKey(sourceKey) ==
  << "v","i","d","e","o","/" >> \o StripExt(Basename(sourceKey))
     \o << ".","m","p","4" >>

\* the key when the extension is left on the base name
ShortOutKey_KeepsExt(sourceKey) ==
  << "s","h","o","r","t","s","/" >> \o Basename(sourceKey)
     \o << "-","9","x","1","6",".","m","p","4" >>

\* renderShortFromS3: `shorts/${base}-9x16.mp4`
ShortOutKey(sourceKey) ==
  << "s","h","o","r","t","s","/" >> \o StripExt(Basename(sourceKey))
     \o << "-","9","x","1","6",".","m","p","4" >>

\* ------------------------------------------------------------------ helpers
Min(a, b) == IF a <= b THEN a ELSE b

RECURSIVE Pow2(_)
Pow2(n) == IF n = 0 THEN 1 ELSE 2 * Pow2(n - 1)

\* the delay without the 60 s cap
backoffMs_NoCap(attempt) == BackoffBase * Pow2(attempt)

\* backoffMs(attempt)
backoffMs(attempt) == Min(BackoffCap, BackoffBase * Pow2(attempt))

\* {queue: [], items: {}}
EmptyDoc == [queue |-> << >>, items |-> << >>]

\* q.splice(idx, 1) with a 1-based idx
Splice(q, idx) ==
  IF idx >= 1 /\ idx <= Len(q)
  THEN SubSeq(q, 1, idx - 1) \o SubSeq(q, idx + 1, Len(q))
  ELSE q

\* q.filter(x => x !== id)
FilterOut(q, id) == SelectSeq(q, LAMBDA x : x # id)

\* items[id] = rec
\* (variant: the id is pushed onto the queue without its record being stored)
PutItem_NoRecord(doc, id, rec) == doc

PutItem(doc, id, rec) ==
  [doc EXCEPT !.items = [k \in (DOMAIN doc.items) \cup {id} |->
                            IF k = id THEN rec ELSE doc.items[k]]]

Eligible(doc, id, t) ==
  /\ id \in DOMAIN doc.items
  /\ doc.items[id].status \in {"queued", "retry"}
  /\ doc.items[id].nextTryAt <= t

\* jobs.queue.findIndex(...) of processVideoOnce, 1-based, 0 for "none"
FindIndex(doc, t) ==
  LET hits == { i \in 1..Len(doc.queue) : Eligible(doc, doc.queue[i], t) }
  IN  IF hits = {} THEN 0
      ELSE CHOOSE i \in hits : \A k \in hits : i <= k

IdleSlot == [pc |-> "idle", jobs |-> EmptyDoc, idx |-> 0, id |-> 0]

\* OPENAI_API_KEY is not set, CAPTIONS_ENABLED defaults to 'true'
DefaultCfg == [openai |-> FALSE, captions |-> TRUE]

\* no render call is open: no temporary file has been created
NoRender == [pc |-> "idle", kind |-> "none", slot |-> 0, tmpIn |-> FALSE,
             tmpOut |-> FALSE, tr |-> "none", lines |-> 0, captioned |-> FALSE,
             firstRun |-> "none", fallbackRuns |-> 0, fallback |-> "none",
             err |-> Undefined]

NoArg == << >>

\* ---------------------------------------------------------------- state
VARIABLES
  build,     \* which source file runs: "server" (src/server.js:1-411) or "part004"
  now,       \* Date.now()
  store,     \* the persisted video job document
  nextUid,   \* next id uid() hands out for the video queue
  acked,     \* ids that POST /api/generate-video has answered
  enq,       \* the POST /api/generate-video request in flight
  tick,      \* the processVideoOnce invocations in flight
  force,     \* the POST /api/video/process-now request in flight
  forced,    \* process-now calls made so far
  renders,   \* per job, renders started by processVideoOnce (counted in SpecFail)
  shorts,    \* the persisted shorts job document
  sUid,      \* next id uid() hands out for the shorts queue
  sEnq,      \* the POST /api/shorts/request in flight
  worker,    \* the workerOnce invocations in flight
  sForce,    \* the POST /api/shorts/process-now request in flight
  sForced,   \* shorts process-now calls made so far
  cfg,       \* the environment: OPENAI_API_KEY set, CAPTIONS_ENABLED
  rend,      \* the render call a worker is waiting for, step by step
  arg,       \* the argument a function is called with
  out,       \* what the call returned
  meta,      \* the persisted metadata document meta/_posts.json
  mslot,     \* the metadata handlers in flight
  hiddenKeys, \* keys a soft-delete has answered for and no restore has asked for
  listed     \* the answer of GET /api/posts that is being sent

videoVars  == << store, nextUid, acked, enq, tick, force, forced, renders >>
shortsVars == << shorts, sUid, sEnq, worker, sForce, sForced >>
renderVars == << cfg, rend >>
pureVars   == << arg, out >>
metaVars   == << meta, mslot, hiddenKeys, listed >>

vars == << build, now, videoVars, shortsVars, renderVars, pureVars, metaVars >>

\* no job document exists yet and no handler is running
QueuesEmpty ==
  /\ build \in {"server", "part004"}
  /\ now = 0
  /\ store = EmptyDoc
  /\ nextUid = 1
  /\ acked = {}
  /\ enq = IdleSlot
  /\ tick = [t \in Ticks |-> IdleSlot]
  /\ force = IdleSlot
  /\ forced = 0
  /\ renders = [j \in JobIds |-> 0]
  /\ shorts = EmptyDoc
  /\ sUid = 1
  /\ sEnq = IdleSlot
  /\ worker = [w \in Ticks |-> IdleSlot]
  /\ sForce = IdleSlot
  /\ sForced = 0

\* the environment of a default deployment; no render call is open
RenderIdle ==
  /\ cfg = DefaultCfg
  /\ rend = NoRender

\* no function call is being looked at
PureIdle ==
  /\ arg = NoArg
  /\ out = NoArg

\* the objects under video/ and audio/ that s3List returns
PostKeys == {VideoOutKey(AudioTestKey), AudioTestKey}

NoItem == "none"
Title == "t1"

\* readMeta() when meta/_posts.json does not exist: { items: {}, deleted: {} }
EmptyMeta == [items |-> [k \in PostKeys |-> NoItem], deleted |-> {}]

IdleMetaSlot == [pc |-> "idle", op |-> "none", keys |-> {}, snap |-> EmptyMeta]

MetaSlots == 1..MaxMetaInFlight

\* no metadata has been written and no metadata handler is running
MetaIdle ==
  /\ meta = EmptyMeta
  /\ mslot = [s \in MetaSlots |-> IdleMetaSlot]
  /\ hiddenKeys = {}
  /\ listed = << >>

Init == QueuesEmpty /\ RenderIdle /\ PureIdle /\ MetaIdle

\* handlers that are suspended at an await
InFlight ==
  Cardinality({ t \in Ticks : tick[t].pc # "idle" })
    + (IF enq.pc # "idle" THEN 1 ELSE 0)
    + (IF force.pc # "idle" THEN 1 ELSE 0)

\* ---------------------------------------------------------------- clock
AdvanceClock ==
  /\ now + Quantum <= MaxNow
  /\ now' = now + Quantum
  /\ UNCHANGED << shortsVars, renderVars, pureVars, build, metaVars, store, nextUid,
                  acked, enq, tick, force, forced,
                  renders >>

\* ------------------------------------------- POST /api/generate-video
\* readVideoJobs() has answered; the record is added to the local object and
\* writeVideoJobs(jobs) is issued.
EnqueueRead(filename) ==
  /\ enq.pc = "idle"
  /\ InFlight < MaxInFlight
  /\ nextUid <= MaxJobs
  /\ LET id  == nextUid
         rec == [id |-> id, filename |-> filename, status |-> "queued",
                 attempts |-> 0, nextTryAt |-> now, createdAt |-> now,
                 output |-> NoKey, error |-> Undefined]
         doc == PutItem(store, id, rec)
     IN  enq' = [pc |-> "write",
                 jobs |-> [doc EXCEPT !.queue = Append(doc.queue, id)],
                 idx |-> 0, id |-> id]
  /\ nextUid' = nextUid + 1
  /\ UNCHANGED << shortsVars, renderVars, pureVars, build, metaVars, now, store, acked,
                  tick, force, forced, renders >>

\* the write lands and the handler answers {ok, id, status: 'queued'}
EnqueueWrite ==
  /\ enq.pc = "write"
  /\ store' = enq.jobs
  /\ acked' = acked \cup {enq.id}
  /\ enq' = IdleSlot
  /\ UNCHANGED << shortsVars, renderVars, pureVars, build, metaVars, now, nextUid,
                  tick, force, forced, renders >>

\* ------------------------------------------------------ processVideoOnce
\* Invocations are anonymous: a new one takes the lowest free slot (0: none).
FreeTick ==
  LET free == { t \in Ticks : tick[t].pc = "idle" }
  IN  IF free = {} THEN 0 ELSE CHOOSE t \in free : \A u \in free : t <= u

\* the timer fires, readVideoJobs() answers, no job is eligible: return
TickNoop(t) ==
  /\ t = FreeTick
  /\ FindIndex(store, now) = 0
  /\ UNCHANGED vars

\* the timer fires, readVideoJobs() answers, the first eligible job is marked
\* processing in the local object and writeVideoJobs(jobs) is issued
TickStart(t) ==
  /\ t = FreeTick
  /\ InFlight < MaxInFlight
  /\ FindIndex(store, now) # 0
  /\ LET idx == FindIndex(store, now)
         id  == store.queue[idx]
     IN  tick' = [tick EXCEPT ![t] =
                    [pc |-> "mark",
                     jobs |-> [store EXCEPT !.items[id].status = "processing"],
                     idx |-> idx, id |-> id]]
  /\ UNCHANGED << shortsVars, renderVars, pureVars, build, metaVars, now, store,
                  nextUid, acked, enq, force, forced,
                  renders >>

\* the `processing` write lands; renderSpectralVideo starts
TickMarkWrite(t) ==
  /\ tick[t].pc = "mark"
  /\ store' = tick[t].jobs
  /\ tick' = [tick EXCEPT ![t].pc = "render"]
  /\ UNCHANGED << shortsVars, pureVars, build, metaVars, now, nextUid, acked, enq,
                  force, forced >>

TickMark(t) == TickMarkWrite(t) /\ UNCHANGED << renders, renderVars >>

\* the same step, with the render counted
TickMarkCounted(t) ==
  /\ TickMarkWrite(t)
  /\ renders' = [renders EXCEPT ![tick[t].id] = @ + 1]
  /\ UNCHANGED renderVars

\* the local object after a successful render
DoneJobs(s, spliced) ==
  LET d == [s.jobs EXCEPT !.items[s.id].status = "done",
                          !.items[s.id].output =
                              VideoOutKey(s.jobs.items[s.id].filename)]
  IN  IF spliced THEN [d EXCEPT !.queue = Splice(d.queue, s.idx)] ELSE d

\* renderSpectralVideo returns; the result is written.
\* part_004 removes the id before its single write; server.js writes `done`
\* first and removes the id in a second write.
TickSucceedWrite(t) ==
  /\ tick[t].pc = "render"
  /\ LET d == DoneJobs(tick[t], build = "part004")
     IN  /\ store' = d
         /\ tick' = [tick EXCEPT ![t] =
                       IF build = "part004" THEN IdleSlot
                       ELSE [tick[t] EXCEPT !.pc = "splice", !.jobs = d]]
  /\ UNCHANGED << shortsVars, pureVars, build, metaVars, now, nextUid, acked, enq,
                  force, forced, renders >>

TickSucceed(t) == TickSucceedWrite(t) /\ UNCHANGED renderVars

\* server.js: jobs.queue.splice(idx,1); await writeVideoJobs(jobs)
TickSplice(t) ==
  /\ tick[t].pc = "splice"
  /\ store' = [tick[t].jobs EXCEPT !.queue = Splice(@, tick[t].idx)]
  /\ tick' = [tick EXCEPT ![t] = IdleSlot]
  /\ UNCHANGED << shortsVars, renderVars, pureVars, build, metaVars, now, nextUid,
                  acked, enq, force, forced, renders >>

\* the local object after a failed render: the catch block
\* errAlways: part_004 stores String(e) on every failure, server.js only
\* when the job is given up.  byFilter: process-now removes the id with
\* filter, the worker with splice(idx, 1).
FailJobs(s, e, t, errAlways, byFilter) ==
  LET a == s.jobs.items[s.id].attempts + 1
      d == [s.jobs EXCEPT !.items[s.id].attempts = a]
  IN  IF a >= MAX_RETRIES
      THEN [d EXCEPT !.items[s.id].status = "error",
                     !.items[s.id].error = e,
                     !.queue = IF byFilter THEN FilterOut(@, s.id)
                               ELSE Splice(@, s.idx)]
      ELSE [d EXCEPT !.items[s.id].status = "retry",
                     !.items[s.id].nextTryAt = t + backoffMs(a),
                     !.items[s.id].error = IF errAlways THEN e ELSE @]

\* renderSpectralVideo throws; the bookkeeping is written
TickFailWrite(t, e) ==
  /\ tick[t].pc = "render"
  /\ store' = FailJobs(tick[t], e, now, build = "part004", FALSE)
  /\ tick' = [tick EXCEPT ![t] = IdleSlot]
  /\ UNCHANGED << shortsVars, pureVars, build, metaVars, now, nextUid, acked, enq,
                  force, forced, renders >>

TickFail(t, e) == TickFailWrite(t, e) /\ UNCHANGED renderVars

\* ------------------------------------- POST /api/video/process-now (part_004)
\* readVideoJobs() answers, the job exists, it is marked processing in the
\* local object and the write is issued
ForceStart(id) ==
  /\ build = "part004"
  /\ force.pc = "idle"
  /\ InFlight < MaxInFlight
  /\ forced < MaxForce
  /\ id \in DOMAIN store.items
  /\ force' = [pc |-> "mark",
               jobs |-> [store EXCEPT !.items[id].status = "processing"],
               idx |-> 0, id |-> id]
  /\ forced' = forced + 1
  /\ UNCHANGED << shortsVars, renderVars, pureVars, build, metaVars, now, store,
                  nextUid, acked, enq, tick, renders >>

ForceMark ==
  /\ force.pc = "mark"
  /\ store' = force.jobs
  /\ force' = [force EXCEPT !.pc = "render"]
  /\ UNCHANGED << shortsVars, renderVars, pureVars, build, metaVars, now, nextUid,
                  acked, enq, tick, forced, renders >>

\* the render returns: status done, output, write; the queue is not touched
ForceSucceed ==
  /\ force.pc = "render"
  /\ store' = DoneJobs(force, FALSE)
  /\ force' = IdleSlot
  /\ UNCHANGED << shortsVars, renderVars, pureVars, build, metaVars, now, nextUid,
                  acked, enq, tick, forced, renders >>

ForceFail(e) ==
  /\ force.pc = "render"
  /\ store' = FailJobs(force, e, now, TRUE, TRUE)
  /\ force' = IdleSlot
  /\ UNCHANGED << shortsVars, renderVars, pureVars, build, metaVars, now, nextUid,
                  acked, enq, tick, forced, renders >>

\* ------------------------------------------------------------------ spec
Next ==
  \/ AdvanceClock
  \/ \E f \in VideoKeys : EnqueueRead(f)
  \/ EnqueueWrite
  \/ \E t \in Ticks : TickNoop(t)
  \/ \E t \in Ticks : TickStart(t)
  \/ \E t \in Ticks : TickMark(t)
  \/ \E t \in Ticks : TickSucceed(t)
  \/ \E t \in Ticks : TickSplice(t)
  \/ \E t \in Ticks, e \in Errors : TickFail(t, e)
  \/ \E id \in JobIds : ForceStart(id)
  \/ ForceMark
  \/ ForceSucceed
  \/ \E e \in Errors : ForceFail(e)

Spec == Init /\ [][Next]_vars

\* Scenario B: the encoder fails on every attempt; only the timer-driven
\* worker and enqueue act, and every render the worker starts is counted.
NextFail ==
  \/ AdvanceClock
  \/ \E f \in VideoKeys : EnqueueRead(f)
  \/ EnqueueWrite
  \/ \E t \in Ticks : TickNoop(t)
  \/ \E t \in Ticks : TickStart(t)
  \/ \E t \in Ticks : TickMarkCounted(t)
  \/ \E t \in Ticks, e \in Errors : TickFail(t, e)

SpecFail == Init /\ [][NextFail]_vars

\* Scenario B when no invocation starts before the previous one has returned.
NextFailSeq ==
  \/ AdvanceClock
  \/ \E f \in VideoKeys : InFlight = 0 /\ EnqueueRead(f)
  \/ EnqueueWrite
  \/ \E t \in Ticks : InFlight = 0 /\ TickNoop(t)
  \/ \E t \in Ticks : InFlight = 0 /\ TickStart(t)
  \/ \E t \in Ticks : TickMarkCounted(t)
  \/ \E t \in Ticks, e \in Errors : TickFail(t, e)

SpecFailSeq == Init /\ [][NextFailSeq]_vars

\* The same handlers when none starts before the previous one has returned:
\* no two of them are ever suspended together.
SeqEnqueueRead(f) == InFlight = 0 /\ EnqueueRead(f)
SeqTickNoop(t)    == InFlight = 0 /\ TickNoop(t)
SeqTickStart(t)   == InFlight = 0 /\ TickStart(t)
SeqForceStart(id) == InFlight = 0 /\ ForceStart(id)

NextSeq ==
  \/ AdvanceClock
  \/ \E f \in VideoKeys : SeqEnqueueRead(f)
  \/ EnqueueWrite
  \/ \E t \in Ticks : SeqTickNoop(t)
  \/ \E t \in Ticks : SeqTickStart(t)
  \/ \E t \in Ticks : TickMark(t)
  \/ \E t \in Ticks : TickSucceed(t)
  \/ \E t \in Ticks : TickSplice(t)
  \/ \E t \in Ticks, e \in Errors : TickFail(t, e)
  \/ \E id \in JobIds : SeqForceStart(id)
  \/ ForceMark
  \/ ForceSucceed
  \/ \E e \in Errors : ForceFail(e)

SpecSeq == Init /\ [][NextSeq]_vars


\* ============================================================ shorts queue
\* requested lengths a client sends; 0 stands for a missing or zero value
MaxSecondsInputs == {0, 45}

\* Number(maxSeconds) || Number(process.env.SHORTS_MAX_SECONDS || 45)
MaxSecondsOf(m) == IF m = 0 THEN DefaultMaxSeconds ELSE m

SInFlight ==
  Cardinality({ w \in Ticks : worker[w].pc # "idle" })
    + (IF sEnq.pc # "idle" THEN 1 ELSE 0)
    + (IF sForce.pc # "idle" THEN 1 ELSE 0)

\* ------------------------------------------- POST /api/shorts/request
\* (SHORTS_ENABLED=true) readJobs() has answered; the record is added to the
\* local object and writeJobs(jobs) is issued.  The record has no attempts
\* and no nextTryAt.
ShortsRequestRead(filename, maxSeconds) ==
  /\ sEnq.pc = "idle"
  /\ SInFlight < MaxInFlight
  /\ sUid <= MaxJobs
  /\ LET id  == sUid
         rec == [id |-> id, filename |-> filename,
                 maxSeconds |-> MaxSecondsOf(maxSeconds), status |-> "queued",
                 createdAt |-> now,
                 output |-> NoKey, error |-> Undefined]
         doc == PutItem(shorts, id, rec)
     IN  sEnq' = [pc |-> "write",
                  jobs |-> [doc EXCEPT !.queue = Append(doc.queue, id)],
                  idx |-> 0, id |-> id]
  /\ sUid' = sUid + 1
  /\ UNCHANGED << renderVars, pureVars, build, metaVars, now, videoVars, shorts,
                  worker, sForce, sForced >>

ShortsRequestWrite ==
  /\ sEnq.pc = "write"
  /\ shorts' = sEnq.jobs
  /\ sEnq' = IdleSlot
  /\ UNCHANGED << renderVars, pureVars, build, metaVars, now, videoVars, sUid, worker,
                  sForce, sForced >>

\* ------------------------------------------------------------ workerOnce
FreeWorker ==
  LET free == { w \in Ticks : worker[w].pc = "idle" }
  IN  IF free = {} THEN 0 ELSE CHOOSE w \in free : \A u \in free : w <= u

\* the timer fires, readJobs() answers, the queue is empty: return
WorkerNoop(w) ==
  /\ w = FreeWorker
  /\ Len(shorts.queue) = 0
  /\ UNCHANGED vars

\* the timer fires, readJobs() answers, next = jobs.queue.shift() and the
\* shortened document is sent to the store
WorkerStart(w) ==
  /\ w = FreeWorker
  /\ SInFlight < MaxInFlight
  /\ Len(shorts.queue) > 0
  /\ worker' = [worker EXCEPT ![w] =
                  [pc |-> "shift",
                   jobs |-> [shorts EXCEPT !.queue = Tail(@)],
                   idx |-> 0, id |-> Head(shorts.queue)]]
  /\ UNCHANGED << renderVars, pureVars, build, metaVars, now, videoVars, shorts, sUid,
                  sEnq, sForce, sForced >>

\* the shortened document lands; the job is marked processing in the local
\* object and written again
WorkerShift(w) ==
  /\ worker[w].pc = "shift"
  /\ shorts' = worker[w].jobs
  /\ worker' = [worker EXCEPT ![w].pc = "mark",
                              ![w].jobs.items[worker[w].id].status = "processing"]
  /\ UNCHANGED << renderVars, pureVars, build, metaVars, now, videoVars, sUid, sEnq,
                  sForce, sForced >>

\* the `processing` write lands; renderShortFromS3 starts
WorkerMarkWrite(w) ==
  /\ worker[w].pc = "mark"
  /\ shorts' = worker[w].jobs
  /\ worker' = [worker EXCEPT ![w].pc = "render"]
  /\ UNCHANGED << pureVars, build, metaVars, now, videoVars, sUid, sEnq, sForce,
                  sForced >>

WorkerMark(w) == WorkerMarkWrite(w) /\ UNCHANGED renderVars

ShortDone(s) ==
  [s.jobs EXCEPT !.items[s.id].status = "done",
                 !.items[s.id].output = ShortOutKey(s.jobs.items[s.id].filename)]

ShortError(s, e) ==
  [s.jobs EXCEPT !.items[s.id].status = "error", !.items[s.id].error = e]

\* renderShortFromS3 returns the uploaded key; status done is written
WorkerSucceedWrite(w) ==
  /\ worker[w].pc = "render"
  /\ shorts' = ShortDone(worker[w])
  /\ worker' = [worker EXCEPT ![w] = IdleSlot]
  /\ UNCHANGED << pureVars, build, metaVars, now, videoVars, sUid, sEnq, sForce,
                  sForced >>

WorkerSucceed(w) == WorkerSucceedWrite(w) /\ UNCHANGED renderVars

\* renderShortFromS3 throws; status error is written (no retry)
WorkerFailWrite(w, e) ==
  /\ worker[w].pc = "render"
  /\ shorts' = ShortError(worker[w], e)
  /\ worker' = [worker EXCEPT ![w] = IdleSlot]
  /\ UNCHANGED << pureVars, build, metaVars, now, videoVars, sUid, sEnq, sForce,
                  sForced >>

WorkerFail(w, e) == WorkerFailWrite(w, e) /\ UNCHANGED renderVars

\* ------------------------------------ POST /api/shorts/process-now (part_004)
ShortsForceStart(id) ==
  /\ build = "part004"
  /\ sForce.pc = "idle"
  /\ SInFlight < MaxInFlight
  /\ sForced < MaxForce
  /\ id \in DOMAIN shorts.items
  /\ sForce' = [pc |-> "mark",
                jobs |-> [shorts EXCEPT !.items[id].status = "processing"],
                idx |-> 0, id |-> id]
  /\ sForced' = sForced + 1
  /\ UNCHANGED << renderVars, pureVars, build, metaVars, now, videoVars, shorts, sUid,
                  sEnq, worker >>

ShortsForceMark ==
  /\ sForce.pc = "mark"
  /\ shorts' = sForce.jobs
  /\ sForce' = [sForce EXCEPT !.pc = "render"]
  /\ UNCHANGED << renderVars, pureVars, build, metaVars, now, videoVars, sUid, sEnq,
                  worker, sForced >>

ShortsForceSucceed ==
  /\ sForce.pc = "render"
  /\ shorts' = ShortDone(sForce)
  /\ sForce' = IdleSlot
  /\ UNCHANGED << renderVars, pureVars, build, metaVars, now, videoVars, sUid, sEnq,
                  worker, sForced >>

ShortsForceFail(e) ==
  /\ sForce.pc = "render"
  /\ shorts' = ShortError(sForce, e)
  /\ sForce' = IdleSlot
  /\ UNCHANGED << renderVars, pureVars, build, metaVars, now, videoVars, sUid, sEnq,
                  worker, sForced >>

NextShorts ==
  \/ AdvanceClock
  \/ \E f \in SourceKeys, m \in MaxSecondsInputs : ShortsRequestRead(f, m)
  \/ ShortsRequestWrite
  \/ \E w \in Ticks : WorkerNoop(w)
  \/ \E w \in Ticks : WorkerStart(w)
  \/ \E w \in Ticks : WorkerShift(w)
  \/ \E w \in Ticks : WorkerMark(w)
  \/ \E w \in Ticks : WorkerSucceed(w)
  \/ \E w \in Ticks, e \in Errors : WorkerFail(w, e)
  \/ \E id \in JobIds : ShortsForceStart(id)
  \/ ShortsForceMark
  \/ ShortsForceSucceed
  \/ \E e \in Errors : ShortsForceFail(e)

SpecShorts == Init /\ [][NextShorts]_vars

\* The shorts handlers when none starts before the previous one has returned.
SeqShortsRequestRead(f, m) == SInFlight = 0 /\ ShortsRequestRead(f, m)
SeqWorkerNoop(w)           == SInFlight = 0 /\ WorkerNoop(w)
SeqWorkerStart(w)          == SInFlight = 0 /\ WorkerStart(w)
SeqShortsForceStart(id)    == SInFlight = 0 /\ ShortsForceStart(id)

NextShortsSeq ==
  \/ AdvanceClock
  \/ \E f \in SourceKeys, m \in MaxSecondsInputs : SeqShortsRequestRead(f, m)
  \/ ShortsRequestWrite
  \/ \E w \in Ticks : SeqWorkerNoop(w)
  \/ \E w \in Ticks : SeqWorkerStart(w)
  \/ \E w \in Ticks : WorkerShift(w)
  \/ \E w \in Ticks : WorkerMark(w)
  \/ \E w \in Ticks : WorkerSucceed(w)
  \/ \E w \in Ticks, e \in Errors : WorkerFail(w, e)
  \/ \E id \in JobIds : SeqShortsForceStart(id)
  \/ ShortsForceMark
  \/ ShortsForceSucceed
  \/ \E e \in Errors : ShortsForceFail(e)

SpecShortsSeq == Init /\ [][NextShortsSeq]_vars

\* ========================================================= render pipeline
\* String(e) of what each step of a render call can throw
ErrDownload   == "NoSuchKey: The specified key does not exist."
ErrNoApiKey   == "Error: OPENAI_API_KEY not set"
ErrTranscribe == "Error: 500 transcription request failed"
ErrEncoder    == "Error: ffmpeg exited with code 1"
ErrUpload     == "Error: upload failed"

\* caption lines mergeSegments can return for a transcript: none or some
LineCounts == 0..1

\* a renderer that rejects on the first 'error' of the encoder
HasFallback_Never == FALSE

\* only renderShortFromS3 of part_004 re-runs the encoder on an error
HasFallback == build = "part004" /\ rend.kind = "short"

\* a render call opens: the two temporary paths are chosen, nothing exists yet
OpenRender(kind, slot) ==
  [NoRender EXCEPT !.pc = "download", !.kind = kind, !.slot = slot]

\* s3GetToFile(sourceKey, tmpIn) has written the source to tmpIn
DownloadOk ==
  /\ rend.pc = "download"
  /\ rend' = [rend EXCEPT !.tmpIn = TRUE,
                          !.pc = IF rend.kind = "short" THEN "transcribe"
                                 ELSE "encode"]
  /\ UNCHANGED << build, metaVars, now, videoVars, shortsVars, cfg, pureVars >>

\* s3GetToFile throws: the object cannot be fetched (no file is created) or
\* the write stream fails (the file may have been created)
DownloadFail(created) ==
  /\ rend.pc = "download"
  /\ rend' = [rend EXCEPT !.tmpIn = created, !.pc = "threw", !.err = ErrDownload]
  /\ UNCHANGED << build, metaVars, now, videoVars, shortsVars, cfg, pureVars >>

\* part_004, no API key: transcribeWhisperOrMock returns the one-segment stub
TranscribeStub ==
  /\ rend.pc = "transcribe"
  /\ build = "part004"
  /\ ~cfg.openai
  /\ rend' = [rend EXCEPT !.tr = "stub", !.lines = 1, !.pc = "encode"]
  /\ UNCHANGED << build, metaVars, now, videoVars, shortsVars, cfg, pureVars >>

\* server.js, no API key: transcribeWhisper throws
TranscribeNoKey ==
  /\ rend.pc = "transcribe"
  /\ build = "server"
  /\ ~cfg.openai
  /\ rend' = [rend EXCEPT !.tr = "failed", !.pc = "threw", !.err = ErrNoApiKey]
  /\ UNCHANGED << build, metaVars, now, videoVars, shortsVars, cfg, pureVars >>

\* the speech-to-text call answers; its segments merge into n caption lines
TranscribeOk(n) ==
  /\ rend.pc = "transcribe"
  /\ cfg.openai
  /\ rend' = [rend EXCEPT !.tr = "ok", !.lines = n, !.pc = "encode"]
  /\ UNCHANGED << build, metaVars, now, videoVars, shortsVars, cfg, pureVars >>

\* the speech-to-text call rejects: the error leaves the render call
TranscribeFail ==
  /\ rend.pc = "transcribe"
  /\ cfg.openai
  /\ rend' = [rend EXCEPT !.tr = "failed", !.pc = "threw", !.err = ErrTranscribe]
  /\ UNCHANGED << build, metaVars, now, videoVars, shortsVars, cfg, pureVars >>

\* the graph of the first encoder run holds drawtext stages:
\* CAPTIONS_ENABLED && lines.length, in part_004's renderShortFromS3 only
Captioned ==
  build = "part004" /\ rend.kind = "short" /\ cfg.captions /\ rend.lines > 0

\* the first encoder run ends: tmpOut is written
EncodeOk ==
  /\ rend.pc = "encode"
  /\ rend' = [rend EXCEPT !.captioned = Captioned, !.firstRun = "ok",
                          !.tmpOut = TRUE, !.pc = "upload"]
  /\ UNCHANGED << build, metaVars, now, videoVars, shortsVars, cfg, pureVars >>

\* the first encoder run emits 'error' (tmpOut may have been created):
\* part_004's renderShortFromS3 starts the run without captions, every other
\* renderer rejects
EncodeFail(created) ==
  /\ rend.pc = "encode"
  /\ rend' = [rend EXCEPT !.captioned = Captioned, !.firstRun = "failed",
                          !.tmpOut = created,
                          !.pc = IF HasFallback THEN "fallback" ELSE "threw",
                          !.err = IF HasFallback THEN @ ELSE ErrEncoder]
  /\ UNCHANGED << build, metaVars, now, videoVars, shortsVars, cfg, pureVars >>

\* the run without captions ends: resolve()
FallbackOk ==
  /\ rend.pc = "fallback"
  /\ rend' = [rend EXCEPT !.fallbackRuns = @ + 1, !.fallback = "ok",
                          !.tmpOut = TRUE, !.pc = "upload"]
  /\ UNCHANGED << build, metaVars, now, videoVars, shortsVars, cfg, pureVars >>

\* the run without captions emits 'error': reject(ee)
FallbackFail(created) ==
  /\ rend.pc = "fallback"
  /\ rend' = [rend EXCEPT !.fallbackRuns = @ + 1, !.fallback = "failed",
                          !.tmpOut = created, !.pc = "threw", !.err = ErrEncoder]
  /\ UNCHANGED << build, metaVars, now, videoVars, shortsVars, cfg, pureVars >>

\* s3UploadBuffer(outKey, ...) succeeds; both files are unlinked; return outKey
UploadOk ==
  /\ rend.pc = "upload"
  /\ rend' = [rend EXCEPT !.tmpIn = FALSE, !.tmpOut = FALSE, !.pc = "returned"]
  /\ UNCHANGED << build, metaVars, now, videoVars, shortsVars, cfg, pureVars >>

\* s3UploadBuffer throws: the unlink line is not reached
UploadFail ==
  /\ rend.pc = "upload"
  /\ rend' = [rend EXCEPT !.pc = "threw", !.err = ErrUpload]
  /\ UNCHANGED << build, metaVars, now, videoVars, shortsVars, cfg, pureVars >>

\* the call is over; what it left on disk stays
CloseRender == [rend EXCEPT !.pc = "idle"]

\* ---- workerOnce around renderShortFromS3
RenderWorkerMark(w) ==
  /\ rend.pc = "idle"
  /\ WorkerMarkWrite(w)
  /\ rend' = OpenRender("short", w)
  /\ UNCHANGED cfg

RenderWorkerSucceed(w) ==
  /\ rend.pc = "returned" /\ rend.kind = "short" /\ rend.slot = w
  /\ WorkerSucceedWrite(w)
  /\ rend' = CloseRender
  /\ UNCHANGED cfg

RenderWorkerFail(w) ==
  /\ rend.pc = "threw" /\ rend.kind = "short" /\ rend.slot = w
  /\ WorkerFailWrite(w, rend.err)
  /\ rend' = CloseRender
  /\ UNCHANGED cfg

\* ---- processVideoOnce around renderSpectralVideo
RenderTickMark(t) ==
  /\ rend.pc = "idle"
  /\ TickMarkWrite(t)
  /\ rend' = OpenRender("video", t)
  /\ UNCHANGED << renders, cfg >>

RenderTickSucceed(t) ==
  /\ rend.pc = "returned" /\ rend.kind = "video" /\ rend.slot = t
  /\ TickSucceedWrite(t)
  /\ rend' = CloseRender
  /\ UNCHANGED cfg

RenderTickFail(t) ==
  /\ rend.pc = "threw" /\ rend.kind = "video" /\ rend.slot = t
  /\ TickFailWrite(t, rend.err)
  /\ rend' = CloseRender
  /\ UNCHANGED cfg

\* any deployment: API key set or not, captions on or off
InitRender ==
  /\ QueuesEmpty
  /\ MetaIdle
  /\ PureIdle
  /\ cfg \in [openai : BOOLEAN, captions : BOOLEAN]
  /\ rend = NoRender

RenderSteps ==
  \/ DownloadOk
  \/ \E c \in BOOLEAN : DownloadFail(c)
  \/ EncodeOk
  \/ \E c \in BOOLEAN : EncodeFail(c)
  \/ UploadOk
  \/ UploadFail

\* the shorts worker with the steps of renderShortFromS3, one handler at a time
NextRenderShorts ==
  \/ AdvanceClock
  \/ \E f \in SourceKeys, m \in MaxSecondsInputs : SeqShortsRequestRead(f, m)
  \/ ShortsRequestWrite
  \/ \E w \in Ticks : SeqWorkerNoop(w)
  \/ \E w \in Ticks : SeqWorkerStart(w)
  \/ \E w \in Ticks : WorkerShift(w)
  \/ \E w \in Ticks : RenderWorkerMark(w)
  \/ RenderSteps
  \/ TranscribeStub
  \/ TranscribeNoKey
  \/ \E n \in LineCounts : TranscribeOk(n)
  \/ TranscribeFail
  \/ FallbackOk
  \/ \E c \in BOOLEAN : FallbackFail(c)
  \/ \E w \in Ticks : RenderWorkerSucceed(w)
  \/ \E w \in Ticks : RenderWorkerFail(w)

SpecRenderShorts == InitRender /\ [][NextRenderShorts]_vars

\* the video worker with the steps of renderSpectralVideo, one handler at a time
NextRenderVideo ==
  \/ AdvanceClock
  \/ \E f \in VideoKeys : SeqEnqueueRead(f)
  \/ EnqueueWrite
  \/ \E t \in Ticks : SeqTickNoop(t)
  \/ \E t \in Ticks : SeqTickStart(t)
  \/ \E t \in Ticks : RenderTickMark(t)
  \/ RenderSteps
  \/ \E t \in Ticks : RenderTickSucceed(t)
  \/ \E t \in Ticks : TickSplice(t)
  \/ \E t \in Ticks : RenderTickFail(t)

SpecRenderVideo == InitRender /\ [][NextRenderVideo]_vars

\* ============================================================== backoffMs
\* backoffMs called with two attempt numbers
InitBackoff ==
  /\ QueuesEmpty
  /\ MetaIdle
  /\ RenderIdle
  /\ arg \in (0..MaxAttempt) \X (0..MaxAttempt)
  /\ out = NoArg

CallBackoff ==
  /\ out = NoArg
  /\ out' = << backoffMs(arg[1]), backoffMs(arg[2]) >>
  /\ UNCHANGED << build, metaVars, now, videoVars, shortsVars, renderVars, arg >>

NextBackoff == CallBackoff

SpecBackoff == InitBackoff /\ [][NextBackoff]_vars

\* ========================================================== mergeSegments
\* what String.prototype.trim removes
Whitespace == {" ", "\n"}

RECURSIVE TrimLeft(_)
TrimLeft(s) ==
  IF Len(s) > 0 /\ Head(s) \in Whitespace THEN TrimLeft(Tail(s)) ELSE s

RECURSIVE TrimRight(_)
TrimRight(s) ==
  IF Len(s) > 0 /\ s[Len(s)] \in Whitespace
  THEN TrimRight(SubSeq(s, 1, Len(s) - 1)) ELSE s

\* s.trim()
Trim(s) == TrimRight(TrimLeft(s))

\* texts of transcript segments: empty, blank, one-letter words, two words, a
\* longer word with blanks around it
SegTexts ==
  { << >>, << " " >>, << "a" >>, << "b" >>, << "c" >>, << "a", " ", "b" >>,
    << " ", "b", "c", "\n" >> }

\* segment boundaries (s): every second up to MaxTime, and the end of a long
\* last segment
LongEnd == 10
Times == 0..MaxTime \cup {LongEnd}

\* the loop variables of mergeSegments before the first segment
MergeStart(segments) ==
  [out |-> << >>, buf |-> << >>,
   start |-> IF Len(segments) > 0 THEN segments[1].start ELSE 0]

\* the loop body that closes a line at the end of the segment that overflows
MergeStep_EndOfNext(st, seg, maxChars) ==
  LET chunk  == Trim(seg.text)
      tryAdd == (IF st.buf # << >> THEN st.buf \o << " " >> ELSE << >>) \o chunk
  IN  IF chunk = << >> THEN st
      ELSE IF Len(tryAdd) > maxChars /\ st.buf # << >>
      THEN [out |-> Append(st.out, [start |-> st.start, end |-> seg.end,
                                    text |-> Trim(st.buf)]),
            buf |-> chunk, start |-> seg.start]
      ELSE [st EXCEPT !.buf = tryAdd]

\* the loop body that starts the next line empty
MergeStep_DropsChunk(st, seg, maxChars) ==
  LET chunk  == Trim(seg.text)
      tryAdd == (IF st.buf # << >> THEN st.buf \o << " " >> ELSE << >>) \o chunk
  IN  IF chunk = << >> THEN st
      ELSE IF Len(tryAdd) > maxChars /\ st.buf # << >>
      THEN [out |-> Append(st.out, [start |-> st.start, end |-> seg.start,
                                    text |-> Trim(st.buf)]),
            buf |-> << >>, start |-> seg.start]
      ELSE [st EXCEPT !.buf = tryAdd]

\* the loop body that lets a line grow one character past maxChars
MergeStep_OffByOne(st, seg, maxChars) ==
  LET chunk  == Trim(seg.text)
      tryAdd == (IF st.buf # << >> THEN st.buf \o << " " >> ELSE << >>) \o chunk
  IN  IF chunk = << >> THEN st
      ELSE IF Len(tryAdd) > maxChars + 1 /\ st.buf # << >>
      THEN [out |-> Append(st.out, [start |-> st.start, end |-> seg.start,
                                    text |-> Trim(st.buf)]),
            buf |-> chunk, start |-> seg.start]
      ELSE [st EXCEPT !.buf = tryAdd]

\* one pass of `for (const s of segments)`
MergeStep(st, seg, maxChars) ==
  LET chunk  == Trim(seg.text)
      tryAdd == (IF st.buf # << >> THEN st.buf \o << " " >> ELSE << >>) \o chunk
  IN  IF chunk = << >> THEN st
      ELSE IF Len(tryAdd) > maxChars /\ st.buf # << >>
      THEN [out |-> Append(st.out, [start |-> st.start, end |-> seg.start,
                                    text |-> Trim(st.buf)]),
            buf |-> chunk, start |-> seg.start]
      ELSE [st EXCEPT !.buf = tryAdd]

RECURSIVE MergeLoop(_, _, _, _)
MergeLoop(st, segments, i, maxChars) ==
  IF i > Len(segments) THEN st
  ELSE MergeLoop(MergeStep(st, segments[i], maxChars), segments, i + 1, maxChars)

\* mergeSegments(segments, maxChars)
mergeSegments(segments, maxChars) ==
  LET st == MergeLoop(MergeStart(segments), segments, 1, maxChars)
  IN  IF st.buf # << >>
      THEN Append(st.out,
                  [start |-> st.start,
                   end   |-> IF Len(segments) > 0 THEN segments[Len(segments)].end
                             ELSE st.start + 3,
                   text  |-> Trim(st.buf)])
      ELSE st.out

\* arg = << segments, maxChars >>; out = << lines >>, then << lines, lines
\* merged again >>
InitMerge ==
  /\ QueuesEmpty
  /\ MetaIdle
  /\ RenderIdle
  /\ arg \in { << << >>, m >> : m \in 1..MaxChars }
  /\ out = NoArg

\* the transcript grows by one segment that starts at or after the end of the
\* one before it
AddSegment(st, en, tx) ==
  /\ out = NoArg
  /\ Len(arg[1]) < MaxSegs
  /\ st < en
  /\ Len(arg[1]) > 0 => arg[1][Len(arg[1])].end <= st
  /\ arg' = << Append(arg[1], [start |-> st, end |-> en, text |-> tx]), arg[2] >>
  /\ UNCHANGED << build, metaVars, now, videoVars, shortsVars, renderVars, out >>

CallMerge ==
  /\ out = NoArg
  /\ out' = << mergeSegments(arg[1], arg[2]) >>
  /\ UNCHANGED << build, metaVars, now, videoVars, shortsVars, renderVars, arg >>

\* the lines are merged again with the same maxChars
CallMergeAgain ==
  /\ Len(out) = 1
  /\ out' = << out[1], mergeSegments(out[1], arg[2]) >>
  /\ UNCHANGED << build, metaVars, now, videoVars, shortsVars, renderVars, arg >>

NextMerge ==
  \/ \E st \in Times, en \in Times, tx \in SegTexts : AddSegment(st, en, tx)
  \/ CallMerge
  \/ CallMergeAgain

SpecMerge == InitMerge /\ [][NextMerge]_vars

\* =============================================================== escaping
\* characters of a caption or a title: the four the filter syntax reserves
\* and a letter
Colon == ":"
Quote == "'"
Backslash == "\\"
Newline == "\n"
Alphabet == {Colon, Quote, Backslash, Newline, "a"}

\* s.replace(/c/g, by) for a one-character pattern
RECURSIVE ReplaceAll(_, _, _)
ReplaceAll(s, c, by) ==
  IF s = << >> THEN << >>
  ELSE (IF Head(s) = c THEN by ELSE << Head(s) >>) \o ReplaceAll(Tail(s), c, by)

\* escDrawtext(s): ':' and the quote get a backslash, a newline becomes a blank
escDrawtext(s) ==
  ReplaceAll(ReplaceAll(ReplaceAll(s, Colon, << Backslash, Colon >>),
                        Quote, << Backslash, Quote >>),
             Newline, << " " >>)

\* esc(s) of the title overlay: backslash, ':' and the quote get a backslash
RECURSIVE esc(_)
esc(s) ==
  IF s = << >> THEN << >>
  ELSE (IF Head(s) \in {Backslash, Colon, Quote}
        THEN << Backslash, Head(s) >> ELSE << Head(s) >>) \o esc(Tail(s))

\* all texts of at most n characters
RECURSIVE TextsUpTo(_)
TextsUpTo(n) ==
  IF n = 0 THEN { << >> }
  ELSE LET shorter == TextsUpTo(n - 1)
       IN  shorter \cup { Append(t, c) : t \in shorter, c \in Alphabet }

\* arg = << text >>; out = << escDrawtext(text), esc(text) >>
InitEsc ==
  /\ QueuesEmpty
  /\ MetaIdle
  /\ RenderIdle
  /\ arg \in { << t >> : t \in TextsUpTo(MaxText) }
  /\ out = NoArg

CallEsc ==
  /\ out = NoArg
  /\ out' = << escDrawtext(arg[1]), esc(arg[1]) >>
  /\ UNCHANGED << build, metaVars, now, videoVars, shortsVars, renderVars, arg >>

NextEsc == CallEsc

SpecEsc == InitEsc /\ [][NextEsc]_vars

\* ============================================================ clip window
Max(a, b) == IF a > b THEN a ELSE b

\* times are given in half seconds; Math.floor and Math.ceil give seconds
Floor2(h) == h \div 2
Ceil2(h) == (h + 1) \div 2

NoSegsEnd == 60
MinClip == 5

\* renderShortFromS3 of part_004: clipStart and clipDur from the first start
\* and the last end of the segments (half seconds; n segments)
ClipWindow004(n, firstStart, lastEnd, maxSeconds) ==
  LET totalEnd == IF n > 0 THEN lastEnd ELSE 2 * NoSegsEnd
  IN  [start |-> Max(0, IF n > 0 THEN Floor2(firstStart) ELSE 0),
       dur   |-> Min(IF maxSeconds # 0 THEN maxSeconds ELSE DefaultMaxSeconds,
                     Max(MinClip, Ceil2(totalEnd)))]

\* pickSegment(tr, maxSeconds) of server.js, on the same inputs
pickSegment(n, firstStart, lastEnd, maxSeconds) ==
  IF n > 0
  THEN LET start == Max(0, Floor2(firstStart))
           end   == Min(Ceil2(firstStart + 2 * maxSeconds),
                        IF lastEnd # 0 THEN Ceil2(lastEnd) ELSE start + maxSeconds)
       IN  [start |-> start, dur |-> Max(MinClip, Min(maxSeconds, end - start))]
  ELSE [start |-> 0, dur |-> Max(MinClip, maxSeconds)]

\* maxSeconds of a job as renderShortFromS3 receives it; 0 stands for none
ClipMaxSeconds == {0, 3, 5, DefaultMaxSeconds}

\* arg = << number of segments, start of the first, end of the last (half
\* seconds), maxSeconds >>; out = << clipStart, clipDuration >>
InitClip ==
  /\ QueuesEmpty
  /\ MetaIdle
  /\ RenderIdle
  /\ arg \in { << n, fs, le, m >> :
                n \in 0..2, fs \in 0..MaxHalf, le \in 0..MaxHalf, m \in ClipMaxSeconds }
  /\ IF arg[1] = 0 THEN arg[2] = 0 /\ arg[3] = 0 ELSE arg[2] < arg[3]
  /\ out = NoArg

\* renderShortFromS3 chooses the time window
CallClipWindow ==
  /\ out = NoArg
  /\ LET win == IF build = "server"
                THEN pickSegment(arg[1], arg[2], arg[3], MaxSecondsOf(arg[4]))
                ELSE ClipWindow004(arg[1], arg[2], arg[3], arg[4])
     IN  out' = << win.start, win.dur >>
  /\ UNCHANGED << build, metaVars, now, videoVars, shortsVars, renderVars, arg >>

NextClip == CallClipWindow

SpecClip == InitClip /\ [][NextClip]_vars

\* ========================================================== caption graph
\* A filter graph is a sequence of tokens: the brackets of a link label, the
\* ';' between filter chains, and words (filter descriptions and label
\* names); a name is a sequence of pieces, so that `${chain}c` can be formed.
Tok(k, w) == [k |-> k, w |-> w]
Word(w) == << Tok("word", w) >>
Label(w) == << Tok("[", << >>), Tok("word", w), Tok("]", << >>) >>
Semicolon == << Tok(";", << >>) >>

\* baseFilters joined by ';'
BaseFilters ==
  Word(<< "color" >>) \o Label(<< "bg" >>) \o Semicolon
  \o Label(<< "0:a" >>) \o Word(<< "atrim,asetpts,asplit" >>)
     \o Label(<< "a1" >>) \o Label(<< "a2" >>) \o Semicolon
  \o Label(<< "a1" >>) \o Word(<< "showspectrum,format" >>)
     \o Label(<< "v1" >>) \o Semicolon
  \o Label(<< "bg" >>) \o Label(<< "v1" >>) \o Word(<< "overlay,drawbox" >>)
     \o Label(<< "vbase" >>)

\* [ `${chain}`, `drawtext=...[${chain}c]` ].join(';')
Draw(chain) ==
  Word(chain) \o Semicolon \o Word(<< "drawtext" >>) \o Label(Append(chain, "c"))

\* the loop over the caption lines: g.shown are the enable windows of the
\* stages added, g.filters the graph, g.chain the last label
RECURSIVE CaptionLoop(_, _, _, _)
CaptionLoop(g, lines, i, win) ==
  IF i > Len(lines) THEN g
  ELSE LET ln    == lines[i]
           start == Max(win.start, ln.start)
           end   == Min(win.start + win.dur,
                        IF ln.end # 0 THEN ln.end ELSE start + 2)
       IN  IF end <= win.start \/ start >= win.start + win.dur
           THEN CaptionLoop(g, lines, i + 1, win)
           ELSE CaptionLoop(
                  [shown   |-> Append(g.shown,
                                      [from |-> start - win.start,
                                       to   |-> end - win.start,
                                       text |-> escDrawtext(ln.text)]),
                   filters |-> g.filters \o Semicolon \o Draw(g.chain),
                   chain   |-> Append(g.chain, "c")],
                  lines, i + 1, win)

\* the graph renderShortFromS3 gives to complexFilter, and the label it maps
BuildGraph(segs, maxChars, maxSeconds) ==
  LET lines == mergeSegments(segs, maxChars)
      n     == Len(segs)
      win   == ClipWindow004(n, IF n > 0 THEN 2 * segs[1].start ELSE 0,
                             IF n > 0 THEN 2 * segs[n].end ELSE 0, maxSeconds)
      g0    == [shown |-> << >>, filters |-> BaseFilters, chain |-> << "vbase" >>]
  IN  << CaptionLoop(g0, lines, 1, win), win >>

\* between(x, min, max) of the expression evaluator of ffmpeg: 1 if x is
\* greater than or equal to min and less than or equal to max
Between(x, min, max) == min <= x /\ x <= max

\* the filter chains of a graph: the tokens between two ';'
RECURSIVE SplitChains(_, _)
SplitChains(toks, cur) ==
  IF toks = << >> THEN << cur >>
  ELSE IF Head(toks).k = ";" THEN << cur >> \o SplitChains(Tail(toks), << >>)
  ELSE SplitChains(Tail(toks), Append(cur, Head(toks)))

\* the link labels a chain begins with: its inputs
RECURSIVE LeadingLabels(_)
LeadingLabels(c) ==
  IF Len(c) >= 3 /\ c[1].k = "[" /\ c[3].k = "]"
  THEN << c[2].w >> \o LeadingLabels(SubSeq(c, 4, Len(c)))
  ELSE << >>

\* the link labels a chain ends with: its outputs
RECURSIVE TrailingLabels(_)
TrailingLabels(c) ==
  IF Len(c) >= 3 /\ c[Len(c)].k = "]" /\ c[Len(c) - 2].k = "["
  THEN TrailingLabels(SubSeq(c, 1, Len(c) - 3)) \o << c[Len(c) - 1].w >>
  ELSE << >>

\* a chain as the graph parser reads it
ParseChain(c) ==
  LET ins  == LeadingLabels(c)
      rest == SubSeq(c, 3 * Len(ins) + 1, Len(c))
      outs == TrailingLabels(rest)
  IN  [inputs  |-> ins,
       filter  |-> SubSeq(rest, 1, Len(rest) - 3 * Len(outs)),
       outputs |-> outs]

ParseGraph(toks) ==
  LET cs == SplitChains(toks, << >>) IN [i \in 1..Len(cs) |-> ParseChain(cs[i])]

\* maxSeconds of the request, as renderShortFromS3 receives it
GraphMaxSeconds == {2, DefaultMaxSeconds}

\* arg = << segments, maxChars >>; out = << enable windows, graph, mapped
\* label, clip window >>
InitGraph ==
  /\ InitMerge
  /\ build = "part004"

\* the captioned graph is built (CAPTIONS_ENABLED)
CallBuildGraph(maxSeconds) ==
  /\ out = NoArg
  /\ LET b == BuildGraph(arg[1], arg[2], maxSeconds)
     IN  out' = << b[1].shown, b[1].filters, b[1].chain, b[2] >>
  /\ UNCHANGED << build, metaVars, now, videoVars, shortsVars, renderVars, arg >>

\* (tr.segments || []).map(s => ({ start: Math.max(0, s.start||0),
\*   end: Math.max(s.end||((s.start||0)+1)), text: s.text||'' }))
SegOf(s) ==
  [start |-> Max(0, s.start),
   end   |-> IF s.end # 0 THEN s.end ELSE s.start + 1,
   text  |-> s.text]

\* the transcript grows by a segment whose end is its start, as Whisper
\* returns for a word it places at a single instant
AddInstant(st, tx) ==
  /\ out = NoArg
  /\ Len(arg[1]) < MaxSegs
  /\ Len(arg[1]) > 0 => arg[1][Len(arg[1])].end <= st
  /\ arg' = << Append(arg[1], SegOf([start |-> st, end |-> st, text |-> tx])),
               arg[2] >>
  /\ UNCHANGED << build, metaVars, now, videoVars, shortsVars, renderVars, out >>

NextGraph ==
  \/ \E st \in Times, en \in Times, tx \in SegTexts : AddSegment(st, en, tx)
  \/ \E st \in Times, tx \in SegTexts : AddInstant(st, tx)
  \/ \E m \in GraphMaxSeconds : CallBuildGraph(m)

SpecGraph == InitGraph /\ [][NextGraph]_vars

\* ========================================================== auto-contrast
\* The masthead stage that chooses its text colour is not among the sources;
\* the rule is taken from the specification.  The weights are kept as
\* integers: Luminance is 10000 * Y.
LumaR == 2126
LumaG == 7152
LumaB == 722
LumaScale == 10000
DarkTextAbove == 140

\* channel values: the extremes and the channels of the brand bar #052962
Channels == {0, 5, 41, 98, 255}

\* the weights of R and B exchanged
Luminance_Swapped(r, g, b) == LumaB * r + LumaG * g + LumaR * b

Luminance(r, g, b) == LumaR * r + LumaG * g + LumaB * b

TextColor(r, g, b) ==
  IF Luminance(r, g, b) > DarkTextAbove * LumaScale THEN "dark" ELSE "light"

\* arg = << R, G, B >>; out = << 10000 * Y, text colour >>
InitContrast ==
  /\ QueuesEmpty
  /\ MetaIdle
  /\ RenderIdle
  /\ arg \in Channels \X Channels \X Channels
  /\ out = NoArg

CallTextColor ==
  /\ out = NoArg
  /\ out' = << Luminance(arg[1], arg[2], arg[3]), TextColor(arg[1], arg[2], arg[3]) >>
  /\ UNCHANGED << build, metaVars, now, videoVars, shortsVars, renderVars, arg >>

NextContrast == CallTextColor

SpecContrast == InitContrast /\ [][NextContrast]_vars

\* ====================================================== metadata handlers
\* POST /api/meta, /api/soft-delete and /api/restore each await readMeta(),
\* change the document they got and await writeMeta(); between the two
\* awaits other handlers run.
MetaFree(s) == mslot[s].pc = "idle"

RestoreInFlight(k) ==
  \E s \in MetaSlots : mslot[s].op = "restore" /\ k \in mslot[s].keys

MetaUnchanged == UNCHANGED << build, now, videoVars, shortsVars, renderVars, pureVars >>

\* POST /api/meta: readMeta() has answered
MetaEditRead(s, filename) ==
  /\ MetaFree(s)
  /\ mslot' = [mslot EXCEPT ![s] = [pc |-> "read", op |-> "meta",
                                    keys |-> {filename}, snap |-> meta]]
  /\ UNCHANGED << meta, hiddenKeys, listed >>
  /\ MetaUnchanged

\* meta.items[filename] = { title, tagline }; writeMeta(meta)
MetaEditWrite(s) ==
  /\ mslot[s].pc = "read"
  /\ mslot[s].op = "meta"
  /\ meta' = [mslot[s].snap EXCEPT
               !.items = [k \in PostKeys |->
                            IF k \in mslot[s].keys THEN Title ELSE @[k]]]
  /\ mslot' = [mslot EXCEPT ![s] = IdleMetaSlot]
  /\ UNCHANGED << hiddenKeys, listed >>
  /\ MetaUnchanged

\* POST /api/soft-delete: readMeta() has answered
SoftDeleteRead(s, filenames) ==
  /\ MetaFree(s)
  /\ mslot' = [mslot EXCEPT ![s] = [pc |-> "read", op |-> "sd",
                                    keys |-> filenames, snap |-> meta]]
  /\ UNCHANGED << meta, hiddenKeys, listed >>
  /\ MetaUnchanged

\* filenames.forEach(fn => { meta.deleted[fn] = true }); writeMeta(meta);
\* the request is answered
SoftDeleteWrite(s) ==
  /\ mslot[s].pc = "read"
  /\ mslot[s].op = "sd"
  /\ meta' = [mslot[s].snap EXCEPT !.deleted = @ \cup mslot[s].keys]
  /\ mslot' = [mslot EXCEPT ![s] = IdleMetaSlot]
  /\ hiddenKeys' = hiddenKeys \cup { k \in mslot[s].keys : ~RestoreInFlight(k) }
  /\ UNCHANGED listed
  /\ MetaUnchanged

\* POST /api/restore: readMeta() has answered
RestoreRead(s, filenames) ==
  /\ MetaFree(s)
  /\ mslot' = [mslot EXCEPT ![s] = [pc |-> "read", op |-> "restore",
                                    keys |-> filenames, snap |-> meta]]
  /\ hiddenKeys' = hiddenKeys \ filenames
  /\ UNCHANGED << meta, listed >>
  /\ MetaUnchanged

\* filenames.forEach(fn => { delete meta.deleted[fn] }); writeMeta(meta)
RestoreWrite(s) ==
  /\ mslot[s].pc = "read"
  /\ mslot[s].op = "restore"
  /\ meta' = [mslot[s].snap EXCEPT !.deleted = @ \ mslot[s].keys]
  /\ mslot' = [mslot EXCEPT ![s] = IdleMetaSlot]
  /\ UNCHANGED << hiddenKeys, listed >>
  /\ MetaUnchanged

\* the filenames GET /api/posts answers with: the objects whose key is not
\* flagged in meta.deleted
Posts(m) == { k \in PostKeys : k \notin m.deleted }

\* GET /api/posts: the listings and readMeta() have answered
PostsGet ==
  /\ listed = << >>
  /\ listed' = << Posts(meta) >>
  /\ UNCHANGED << meta, mslot, hiddenKeys >>
  /\ MetaUnchanged

\* res.json(items)
PostsSent ==
  /\ listed # << >>
  /\ listed' = << >>
  /\ UNCHANGED << meta, mslot, hiddenKeys >>
  /\ MetaUnchanged

FilenameSets == (SUBSET PostKeys) \ {{}}

NextMeta ==
  \/ \E s \in MetaSlots, f \in PostKeys : MetaEditRead(s, f)
  \/ \E s \in MetaSlots : MetaEditWrite(s)
  \/ \E s \in MetaSlots, fs \in FilenameSets : SoftDeleteRead(s, fs)
  \/ \E s \in MetaSlots : SoftDeleteWrite(s)
  \/ \E s \in MetaSlots, fs \in FilenameSets : RestoreRead(s, fs)
  \/ \E s \in MetaSlots : RestoreWrite(s)
  \/ PostsGet
  \/ PostsSent

SpecMeta == Init /\ [][NextMeta]_vars

\* one request at a time: a handler starts when no other is in flight
NoMetaInFlight == \A s \in MetaSlots : MetaFree(s)

SeqMetaEditRead(s, f) == NoMetaInFlight /\ MetaEditRead(s, f)
SeqSoftDeleteRead(s, fs) == NoMetaInFlight /\ SoftDeleteRead(s, fs)
SeqRestoreRead(s, fs) == NoMetaInFlight /\ RestoreRead(s, fs)

NextMetaSeq ==
  \/ \E s \in MetaSlots, f \in PostKeys : SeqMetaEditRead(s, f)
  \/ \E s \in MetaSlots : MetaEditWrite(s)
  \/ \E s \in MetaSlots, fs \in FilenameSets : SeqSoftDeleteRead(s, fs)
  \/ \E s \in MetaSlots : SoftDeleteWrite(s)
  \/ \E s \in MetaSlots, fs \in FilenameSets : SeqRestoreRead(s, fs)
  \/ \E s \in MetaSlots : RestoreWrite(s)
  \/ PostsGet
  \/ PostsSent

SpecMetaSeq == Init /\ [][NextMetaSeq]_vars

\* ============================================================ requireAdmin
\* process.env.ADMIN_TOKEN: unset, or a secret
AdminToken == "secret"
AdminTokens == {Undefined, AdminToken}

\* req.get('x-admin-token'): absent, the secret, or something else
ProvidedTokens == {Undefined, AdminToken, "guess"}

\* requireAdmin when an absent header is let through
requireAdmin_AbsentPasses(adminToken, provided) ==
  IF adminToken = Undefined THEN "next"
  ELSE IF provided # adminToken /\ provided # Undefined THEN "401"
  ELSE "next"

\* requireAdmin(req, res, next): what the middleware does with the request
requireAdmin(adminToken, provided) ==
  IF adminToken = Undefined THEN "next"
  ELSE IF provided # adminToken THEN "401"
  ELSE "next"

\* the protected routes, by the document their handler writes
Endpoints ==
  [video  |-> {"upload", "generate-video", "video/process-now"},
   shorts |-> {"shorts/request", "shorts/process-now"},
   meta   |-> {"meta", "soft-delete", "restore"}]

\* arg = << ADMIN_TOKEN, the family of routes that is exercised >>;
\* out = << route, x-admin-token, what requireAdmin did >> of the last request
InitAuth ==
  /\ QueuesEmpty
  /\ MetaIdle
  /\ RenderIdle
  /\ arg \in AdminTokens \X DOMAIN Endpoints
  /\ out = NoArg

\* a request to a protected route reaches requireAdmin
AuthCheck(route, provided) ==
  /\ route \in Endpoints[arg[2]]
  /\ out' = << route, provided, requireAdmin(arg[1], provided) >>
  /\ UNCHANGED << build, metaVars, now, videoVars, shortsVars, renderVars, arg >>

\* requireAdmin has called next() for the route
Admitted(route) == Len(out) = 3 /\ out[1] = route /\ out[3] = "next"

AuthGenerateVideo(f) == Admitted("generate-video") /\ SeqEnqueueRead(f)
AuthVideoProcessNow(id) == Admitted("video/process-now") /\ SeqForceStart(id)
AuthShortsRequest(f, m) == Admitted("shorts/request") /\ SeqShortsRequestRead(f, m)
AuthShortsProcessNow(id) == Admitted("shorts/process-now") /\ SeqShortsForceStart(id)
AuthMeta(s, f) == Admitted("meta") /\ SeqMetaEditRead(s, f)
AuthSoftDelete(s, fs) == Admitted("soft-delete") /\ SeqSoftDeleteRead(s, fs)
AuthRestore(s, fs) == Admitted("restore") /\ SeqRestoreRead(s, fs)

\* the timers and the continuations of handlers that were let in
VideoContinues ==
  /\ arg[2] = "video"
  /\ \/ EnqueueWrite
     \/ \E t \in Ticks : SeqTickNoop(t)
     \/ \E t \in Ticks : SeqTickStart(t)
     \/ \E t \in Ticks : TickMark(t)
     \/ \E t \in Ticks : TickSucceed(t)
     \/ \E t \in Ticks, e \in Errors : TickFail(t, e)
     \/ ForceMark
     \/ ForceSucceed
     \/ \E e \in Errors : ForceFail(e)

ShortsContinues ==
  /\ arg[2] = "shorts"
  /\ \/ ShortsRequestWrite
     \/ \E w \in Ticks : SeqWorkerNoop(w)
     \/ \E w \in Ticks : SeqWorkerStart(w)
     \/ \E w \in Ticks : WorkerShift(w)
     \/ \E w \in Ticks : WorkerMark(w)
     \/ \E w \in Ticks : WorkerSucceed(w)
     \/ \E w \in Ticks, e \in Errors : WorkerFail(w, e)
     \/ ShortsForceMark
     \/ ShortsForceSucceed
     \/ \E e \in Errors : ShortsForceFail(e)

MetaContinues ==
  /\ arg[2] = "meta"
  /\ \/ \E s \in MetaSlots : MetaEditWrite(s)
     \/ \E s \in MetaSlots : SoftDeleteWrite(s)
     \/ \E s \in MetaSlots : RestoreWrite(s)
     \/ PostsGet
     \/ PostsSent

NextAuth ==
  \/ \E r \in UNION {Endpoints[x] : x \in DOMAIN Endpoints}, p \in ProvidedTokens :
       AuthCheck(r, p)
  \/ \E f \in VideoKeys : AuthGenerateVideo(f)
  \/ \E id \in JobIds : AuthVideoProcessNow(id)
  \/ \E f \in SourceKeys, m \in MaxSecondsInputs : AuthShortsRequest(f, m)
  \/ \E id \in JobIds : AuthShortsProcessNow(id)
  \/ \E sl \in MetaSlots, f \in PostKeys : AuthMeta(sl, f)
  \/ \E sl \in MetaSlots, fs \in FilenameSets : AuthSoftDelete(sl, fs)
  \/ \E sl \in MetaSlots, fs \in FilenameSets : AuthRestore(sl, fs)
  \/ VideoContinues
  \/ ShortsContinues
  \/ MetaContinues

SpecAuth == InitAuth /\ [][NextAuth]_vars

\* ======================================================= queue progress
\* The video queue under the scheduling the code sets up: setInterval fires
\* processVideoOnce again and again, every awaited store write and every
\* render call returns.  The clock of the model stops at MaxNow, so a render
\* fails only while the retry it schedules still falls inside the modelled
\* time (or is the last attempt, which needs no retry).
LiveTickFail(t, e) ==
  /\ tick[t].pc = "render"
  /\ LET a == tick[t].jobs.items[tick[t].id].attempts + 1
     IN  a >= MAX_RETRIES \/ now + backoffMs(a) <= MaxNow
  /\ TickFail(t, e)

RenderReturns(t) == TickSucceed(t) \/ \E e \in Errors : LiveTickFail(t, e)

\* the step an invocation that is under way takes next: its awaited write
\* completes or its render call returns
TickContinues(t) == TickMark(t) \/ RenderReturns(t) \/ TickSplice(t)

NextLive ==
  \/ AdvanceClock
  \/ \E f \in VideoKeys : EnqueueRead(f)
  \/ EnqueueWrite
  \/ \E t \in Ticks : TickNoop(t)
  \/ \E t \in Ticks : TickStart(t)
  \/ \E t \in Ticks : TickMark(t)
  \/ \E t \in Ticks : TickSucceed(t)
  \/ \E t \in Ticks : TickSplice(t)
  \/ \E t \in Ticks, e \in Errors : LiveTickFail(t, e)

\* time passes, awaited writes complete, render calls return, the timer keeps
\* firing
Scheduling ==
  /\ WF_vars(AdvanceClock)
  /\ WF_vars(EnqueueWrite)
  /\ \A t \in Ticks : WF_vars(TickContinues(t))
  /\ SF_vars(\E t \in Ticks : TickStart(t))

SpecLive == Init /\ [][NextLive]_vars /\ Scheduling

\* the same when no invocation starts before the previous one has returned
NextLiveSeq ==
  \/ AdvanceClock
  \/ \E f \in VideoKeys : SeqEnqueueRead(f)
  \/ EnqueueWrite
  \/ \E t \in Ticks : SeqTickNoop(t)
  \/ \E t \in Ticks : SeqTickStart(t)
  \/ \E t \in Ticks : TickMark(t)
  \/ \E t \in Ticks : TickSucceed(t)
  \/ \E t \in Ticks : TickSplice(t)
  \/ \E t \in Ticks, e \in Errors : LiveTickFail(t, e)

SchedulingSeq ==
  /\ WF_vars(AdvanceClock)
  /\ WF_vars(EnqueueWrite)
  /\ \A t \in Ticks : WF_vars(TickContinues(t))
  /\ SF_vars(\E t \in Ticks : SeqTickStart(t))

SpecLiveSeq == Init /\ [][NextLiveSeq]_vars /\ SchedulingSeq


\* ===================================================== failing store reads
\* what s3.send(new GetObjectCommand(...)) does for the job document: it
\* answers the stored text, or it rejects (network error, access denied,
\* throttling; also NoSuchKey while nothing has been written yet)
GetOutcomes == {"ok", "error"}

\* s3GetText(key): the text, or null from the catch-all `catch { return null }`
s3GetText(outcome, doc) ==
  IF outcome = "ok" THEN [null |-> FALSE, text |-> doc]
                    ELSE [null |-> TRUE, text |-> EmptyDoc]

\* readVideoJobs(): if(!txt) return { queue: [], items: {} }
readVideoJobs(outcome, doc) ==
  LET txt == s3GetText(outcome, doc)
  IN  IF txt.null THEN EmptyDoc ELSE txt.text

\* POST /api/generate-video up to the issue of writeVideoJobs(jobs); arg
\* remembers the handler and how its GetObject ended
LoadEnqueueRead(filename, outcome) ==
  /\ InFlight = 0
  /\ nextUid <= MaxJobs
  /\ LET id  == nextUid
         rec == [id |-> id, filename |-> filename, status |-> "queued",
                 attempts |-> 0, nextTryAt |-> now, createdAt |-> now,
                 output |-> NoKey, error |-> Undefined]
         doc == PutItem(readVideoJobs(outcome, store), id, rec)
     IN  enq' = [pc |-> "write",
                 jobs |-> [doc EXCEPT !.queue = Append(doc.queue, id)],
                 idx |-> 0, id |-> id]
  /\ nextUid' = nextUid + 1
  /\ arg' = << "enqueue", outcome >>
  /\ UNCHANGED << shortsVars, renderVars, out, build, metaVars, now, store, acked,
                  tick, force, forced, renders >>

\* processVideoOnce: nothing eligible in the document it loaded, return
LoadTickNoop(t, outcome) ==
  /\ InFlight = 0
  /\ t = FreeTick
  /\ FindIndex(readVideoJobs(outcome, store), now) = 0
  /\ arg' = << "tick", outcome >>
  /\ UNCHANGED << shortsVars, renderVars, out, build, metaVars, videoVars, now >>

\* processVideoOnce: the first eligible job of the loaded document is marked
LoadTickStart(t, outcome) ==
  /\ InFlight = 0
  /\ t = FreeTick
  /\ LET jobs == readVideoJobs(outcome, store)
         idx  == FindIndex(jobs, now)
     IN  /\ idx # 0
         /\ tick' = [tick EXCEPT ![t] =
                       [pc |-> "mark",
                        jobs |-> [jobs EXCEPT
                                    !.items[jobs.queue[idx]].status = "processing"],
                        idx |-> idx, id |-> jobs.queue[idx]]]
  /\ arg' = << "tick", outcome >>
  /\ UNCHANGED << shortsVars, renderVars, out, build, metaVars, now, store,
                  nextUid, acked, enq, force, forced, renders >>

NextLoad ==
  \/ AdvanceClock
  \/ \E f \in VideoKeys, o \in GetOutcomes : LoadEnqueueRead(f, o)
  \/ EnqueueWrite
  \/ \E t \in Ticks, o \in GetOutcomes : LoadTickNoop(t, o)
  \/ \E t \in Ticks, o \in GetOutcomes : LoadTickStart(t, o)
  \/ \E t \in Ticks : TickMark(t)
  \/ \E t \in Ticks : TickSucceed(t)
  \/ \E t \in Ticks : TickSplice(t)
  \/ \E t \in Ticks, e \in Errors : TickFail(t, e)

SpecLoad == Init /\ [][NextLoad]_vars


\* ================================================= in-memory job tracker
\* The direct POST /api/generate-video of server.js:763-806 and of
\* part_005:745-846 with its entry in the `jobs` map.  arg is the handler
\* (which file, where it stands, its lastPercent, the ffmpeg run, the progress
\* events seen in this run), out is the entry GET /api/jobs/:id returns.
TrackerFiles == {"server", "part005"}

\* p.percent of a progress event: NoPercent when it is not a number
NoPercent == -1
Percents  == {NoPercent, 0, 40, 80, 120}
MaxEvents == 2

NoEntry == [status |-> "none", progress |-> 0]

InitTracker ==
  /\ QueuesEmpty
  /\ MetaIdle
  /\ RenderIdle
  /\ arg \in { [file |-> f, pc |-> "idle", lastPercent |-> 0, run |-> 0, events |-> 0] :
               f \in TrackerFiles }
  /\ out = NoEntry

TrackerUnchanged ==
  UNCHANGED << build, metaVars, now, videoVars, shortsVars, renderVars >>

\* jobs.set(jobId, { status:'running', progress:1 }) / jobs[jobId] =
\* { status: 'running', progress: 0 }, then 202 and the background work
TrackerPost ==
  /\ arg.pc = "idle"
  /\ out' = [status |-> "running",
             progress |-> IF arg.file = "server" THEN 1 ELSE 0]
  /\ arg' = [arg EXCEPT !.pc = IF arg.file = "server" THEN "ffmpeg" ELSE "prepare",
                        !.run = 1]
  /\ TrackerUnchanged

\* part_005: the audio is fetched and converted; ffmpeg starts
TrackerPrepared ==
  /\ arg.pc = "prepare"
  /\ arg' = [arg EXCEPT !.pc = "ffmpeg"]
  /\ UNCHANGED out
  /\ TrackerUnchanged

\* the entry the catch of part_005:839-842 writes
Failed005 == [status |-> "error", progress |-> 100]

\* part_005: downloadToTemp, copyFileSync or the conversion throws
TrackerPrepareFails ==
  /\ arg.pc = "prepare"
  /\ arg' = [arg EXCEPT !.pc = "finished"]
  /\ out' = Failed005
  /\ TrackerUnchanged

\* .on('progress', p => ...)
OnProgress(file, lastPercent, percent) ==
  IF file = "server"
  THEN IF percent # NoPercent
       THEN Max(lastPercent, Min(99, percent))
       ELSE lastPercent
  ELSE Min(99, IF percent # NoPercent THEN percent ELSE 0)

TrackerProgress(percent) ==
  /\ arg.pc = "ffmpeg"
  /\ arg.events < MaxEvents
  /\ LET p == OnProgress(arg.file, arg.lastPercent, percent)
     IN  /\ arg' = [arg EXCEPT !.events = @ + 1,
                               !.lastPercent = IF arg.file = "server" THEN p ELSE @]
         /\ out' = [out EXCEPT !.progress = p]
  /\ TrackerUnchanged

\* .on('end'): the upload starts
TrackerFfmpegEnd ==
  /\ arg.pc = "ffmpeg"
  /\ arg' = [arg EXCEPT !.pc = "upload"]
  /\ UNCHANGED out
  /\ TrackerUnchanged

\* .on('error'): server.js marks the job; part_005 falls back to showwaves
\* after the first run and gives up after the second
TrackerFfmpegError ==
  /\ arg.pc = "ffmpeg"
  /\ IF arg.file = "server"
     THEN /\ arg' = [arg EXCEPT !.pc = "finished"]
          /\ out' = [out EXCEPT !.status = "error"]
     ELSE IF arg.run = 1
     THEN /\ arg' = [arg EXCEPT !.run = 2, !.events = 0]
          /\ UNCHANGED out
     ELSE /\ arg' = [arg EXCEPT !.pc = "finished"]
          /\ out' = Failed005
  /\ TrackerUnchanged

\* the upload and the metadata write succeed
TrackerUploaded ==
  /\ arg.pc = "upload"
  /\ arg' = [arg EXCEPT !.pc = "finished"]
  /\ out' = [status |-> "done", progress |-> 100]
  /\ TrackerUnchanged

\* r2PutFile / putFile or the metadata write throws
TrackerUploadFails ==
  /\ arg.pc = "upload"
  /\ arg' = [arg EXCEPT !.pc = "finished"]
  /\ out' = IF arg.file = "server" THEN [out EXCEPT !.status = "error"]
            ELSE Failed005
  /\ TrackerUnchanged

NextTracker ==
  \/ TrackerPost
  \/ TrackerPrepared
  \/ TrackerPrepareFails
  \/ \E p \in Percents : TrackerProgress(p)
  \/ TrackerFfmpegEnd
  \/ TrackerFfmpegError
  \/ TrackerUploaded
  \/ TrackerUploadFails

SpecTracker == InitTracker /\ [][NextTracker]_vars


\* ======================================================= polling worker
\* The in-memory shorts router (routes/shorts.js:1-20) and the worker that
\* polls it (part_000:42-104).  arg is the `jobs` array of the router, out is
\* the worker: where it stands, the positions in `jobs` of the records its
\* poll returned with status queued, the one it works on, the polls made.
\* The worker reads only id and filename of its copy, which no PATCH changes.
MaxPolls == 2

\* req.body.filename: a name, or nothing
PollFilenames == {"voice.mp3", Undefined}

Sleeping == [pc |-> "sleep", queued |-> << >>, i |-> 0, polls |-> 0]

InitPoll ==
  /\ QueuesEmpty
  /\ MetaIdle
  /\ RenderIdle
  /\ arg = << >>
  /\ out = Sleeping

PollUnchanged ==
  UNCHANGED << build, metaVars, now, videoVars, shortsVars, renderVars >>

\* router.post("/"): id is Date.now().toString()
RouterPost(filename) ==
  /\ Len(arg) < MaxJobs
  /\ arg' = Append(arg, [id |-> now, filename |-> filename, status |-> "queued",
                         outputUrl |-> Undefined, caption |-> Undefined])
  /\ UNCHANGED out
  /\ PollUnchanged

\* jobs.filter(j => j.status === "queued") over the answer of GET /api/shorts
RECURSIVE QueuedFrom(_, _)
QueuedFrom(jobs, k) ==
  IF k > Len(jobs) THEN << >>
  ELSE (IF jobs[k].status = "queued" THEN << k >> ELSE << >>)
         \o QueuedFrom(jobs, k + 1)

\* the for loop moves to the next queued job; after the last one processQueue
\* returns and the loop sleeps 15 s
NextJob(w) ==
  IF w.i < Len(w.queued)
  THEN [w EXCEPT !.pc = "job", !.i = @ + 1]
  ELSE [w EXCEPT !.pc = "sleep", !.queued = << >>, !.i = 0]

\* the heartbeat: processQueue() fetches the jobs
Poll ==
  /\ out.pc = "sleep"
  /\ out.polls < MaxPolls
  /\ out' = NextJob([out EXCEPT !.queued = QueuedFrom(arg, 1), !.i = 0,
                                !.polls = @ + 1])
  /\ UNCHANGED arg
  /\ PollUnchanged

\* path.join(UPLOADS_DIR, job.filename), before the try: a TypeError for a
\* job without filename leaves processQueue and ends the loop
JobBegin ==
  /\ out.pc = "job"
  /\ out' = IF arg[out.queued[out.i]].filename = Undefined
            THEN [out EXCEPT !.pc = "crashed"]
            ELSE [out EXCEPT !.pc = "render"]
  /\ UNCHANGED arg
  /\ PollUnchanged

StepAfter == [render |-> "transcribe", transcribe |-> "upload", upload |-> "patch"]

\* ffmpeg ends, the transcription answers, uploadToR2 answers
StepSucceeds ==
  /\ out.pc \in DOMAIN StepAfter
  /\ out' = [out EXCEPT !.pc = StepAfter[out.pc]]
  /\ UNCHANGED arg
  /\ PollUnchanged

\* ffmpeg, the transcription, the upload or the PATCH request throws:
\* catch (err) { console.error(...) }
StepFails ==
  /\ out.pc \in DOMAIN StepAfter \cup {"patch"}
  /\ out' = NextJob(out)
  /\ UNCHANGED arg
  /\ PollUnchanged

\* jobs.find(j => j.id === req.params.id): position of the first, 0 for none
FindById(jobs, id) ==
  LET hits == { k \in 1..Len(jobs) : jobs[k].id = id }
  IN  IF hits = {} THEN 0 ELSE CHOOSE k \in hits : \A h \in hits : k <= h

\* router.patch("/:id"): Object.assign(job, req.body)
RouterPatch(jobs, id, body) ==
  LET k == FindById(jobs, id)
  IN  IF k = 0 THEN jobs
      ELSE [jobs EXCEPT ![k] = [@ EXCEPT !.status = body.status,
                                         !.outputUrl = body.outputUrl,
                                         !.caption = body.caption]]

\* the PATCH of the worker arrives
DoneBody == [status |-> "done", outputUrl |-> "r2Url", caption |-> "captionText"]

WorkerPatch ==
  /\ out.pc = "patch"
  /\ arg' = RouterPatch(arg, arg[out.queued[out.i]].id, DoneBody)
  /\ out' = NextJob(out)
  /\ PollUnchanged

NextPoll ==
  \/ AdvanceClock
  \/ \E f \in PollFilenames : RouterPost(f)
  \/ Poll
  \/ JobBegin
  \/ StepSucceeds
  \/ StepFails
  \/ WorkerPatch

SpecPoll == InitPoll /\ [][NextPoll]_vars


\* ================================================================ claims
InQueue(doc, id) == \E i \in 1..Len(doc.queue) : doc.queue[i] = id

\* position of id in the queue, 0 when absent
PosOf(q, id) ==
  LET hits == { i \in 1..Len(q) : q[i] = id }
  IN  IF hits = {} THEN 0 ELSE CHOOSE i \in hits : \A k \in hits : i <= k

Present == DOMAIN store.items

StatusStep(a, b) ==
  \/ a = b
  \/ a \in {"queued", "retry"} /\ b = "processing"
  \/ a = "processing" /\ b \in {"done", "retry", "error"}

\* C1: the persisted status of a job only moves queued->processing,
\* retry->processing and processing->done|retry|error; done and error are
\* never left.
C1_StatusTransitions ==
  [][\A j \in JobIds :
       (j \in Present /\ j \in DOMAIN store'.items)
         => StatusStep(store.items[j].status, store'.items[j].status)]_vars

RendersInFlight == { t \in Ticks : tick[t].pc = "render" }

\* C2: inside one worker process at most one render started by a timer tick
\* is in flight at any time.
C2_OneRenderAtATime == Cardinality(RendersInFlight) <= 1

\* C3: the record of every id that enqueue has answered is present in `items`
\* of the persisted document.
C3_AckedNeverLost == \A id \in acked : id \in Present

\* C4: an id is in `queue` iff its record is queued, retry or processing.
C4_QueueIffNonTerminal ==
  \A id \in Present :
    InQueue(store, id) <=> store.items[id].status \in {"queued", "retry", "processing"}

\* C5: attempts never decreases, never exceeds maxRetries, and a job whose
\* attempts has reached maxRetries has status error.
C5_AttemptsBounded ==
  [][\A j \in DOMAIN store'.items :
       /\ store'.items[j].attempts <= MAX_RETRIES
       /\ (store'.items[j].attempts = MAX_RETRIES => store'.items[j].status = "error")
       /\ (j \in Present => store'.items[j].attempts >= store.items[j].attempts)]_vars

\* every record but id's, and the order of the queue ids but id, are as before
FrameBut(id) ==
  /\ \A k \in Present \ {id} :
       k \in DOMAIN store'.items /\ store'.items[k] = store.items[k]
  /\ FilterOut(store'.queue, id) = FilterOut(store.queue, id)

\* C7: a failed render of a job with attempts a leaves attempts = a+1; at
\* maxRetries the status is error and the id leaves the queue, otherwise the
\* status is retry, nextTryAt = now + backoff(a+1) and the id keeps its
\* position; every other record and the order of the other ids are unchanged.
C7_FailureBookkeeping ==
  [][\A t \in Ticks, e \in Errors :
       TickFail(t, e) =>
         LET id == tick[t].id
             a  == tick[t].jobs.items[id].attempts
             r  == store'.items[id]
         IN  /\ r.attempts = a + 1
             /\ IF a + 1 >= MAX_RETRIES
                THEN r.status = "error" /\ ~InQueue(store', id)
                ELSE /\ r.status = "retry"
                     /\ r.nextTryAt = now + backoffMs(a + 1)
                     /\ PosOf(store'.queue, id) = PosOf(store.queue, id)
             /\ FrameBut(id)]_vars

\* the step that ends a successful tick: part_004's single write, server.js's
\* second write
TickSuccessEnds(t) ==
  \/ build = "part004" /\ TickSucceed(t)
  \/ build = "server" /\ TickSplice(t)

\* C8: after a successful render the persisted job is done with output = the
\* uploaded key, its id is out of the queue, its attempts is unchanged and the
\* other queue ids keep their order.
C8_SuccessBookkeeping ==
  [][\A t \in Ticks :
       TickSuccessEnds(t) =>
         LET id == tick[t].id
             r  == store'.items[id]
         IN  /\ r.status = "done"
             /\ r.output = VideoOutKey(r.filename)
             /\ ~InQueue(store', id)
             /\ id \in Present /\ r.attempts = store.items[id].attempts
             /\ FilterOut(store'.queue, id) = FilterOut(store.queue, id)]_vars

\* C6: a job whose render always fails is rendered exactly maxRetries times
\* by the worker and then has status error, attempts = maxRetries and is out
\* of the queue; no further render of it is started.
C6_ThreeRendersThenError ==
  \A j \in Present :
    /\ renders[j] <= MAX_RETRIES
    /\ store.items[j].status = "error"
         => /\ renders[j] = MAX_RETRIES
            /\ store.items[j].attempts = MAX_RETRIES
            /\ ~InQueue(store, j)

\* "shorts/test-9x16.mp4"
ShortsTestKey ==
  << "s","h","o","r","t","s","/","t","e","s","t","-","9","x","1","6",".","m","p","4" >>

\* "shorts/1700000000-test-9x16.mp4"
ShortsStampedTestKey ==
  << "s","h","o","r","t","s","/","1","7","0","0","0","0","0","0","0","0","-",
     "t","e","s","t","-","9","x","1","6",".","m","p","4" >>

ShortsPrefix == << "s","h","o","r","t","s","/" >>
VerticalSuffix == << "-","9","x","1","6",".","m","p","4" >>

HasPrefix(s, p) == Len(s) >= Len(p) /\ SubSeq(s, 1, Len(p)) = p
HasSuffix(s, x) == Len(s) >= Len(x) /\ SubSeq(s, Len(s) - Len(x) + 1, Len(s)) = x

\* the record a request for audio/1700000000-test.mp3 has just persisted
ScenarioAEnqueued ==
  /\ ShortsRequestWrite
  /\ sEnq.jobs.items[sEnq.id].filename = AudioTestKey

\* the worker's render of audio/1700000000-test.mp3 has just succeeded
ScenarioARendered(w) ==
  /\ WorkerSucceed(w)
  /\ worker[w].jobs.items[worker[w].id].filename = AudioTestKey

\* the record the request has persisted is queued; withAttempts: and holds
\* attempts = 0 / holds no attempts field
EnqueuedRecord(withAttempts) ==
  ScenarioAEnqueued =>
    LET r == shorts'.items[sEnq.id]
    IN  /\ r.status = "queued"
        /\ IF withAttempts
           THEN "attempts" \in DOMAIN r /\ r.attempts = 0
           ELSE "attempts" \notin DOMAIN r

\* the successful render leaves the scenario's job done with output `key`
RenderedAs(key) ==
  \A w \in Ticks :
    ScenarioARendered(w) =>
      LET d == shorts'.items[worker[w].id]
      IN  d.status = "done" /\ d.output = key

\* every key the shorts worker writes is shorts/<base>-9x16.mp4
VerticalKey ==
  \A w \in Ticks :
    WorkerSucceed(w) =>
      LET o == shorts'.items[worker[w].id].output
      IN  HasPrefix(o, ShortsPrefix) /\ HasSuffix(o, VerticalSuffix)

ShortsEligible(doc, id) ==
  id \in DOMAIN doc.items /\ doc.items[id].status \in {"queued", "retry"}

\* the job processVideoOnce picks is the first eligible one of the queue
VideoPickIsFirstEligible ==
  \A t \in Ticks :
    TickStart(t) =>
      LET id == tick'[t].id
          p  == PosOf(store.queue, id)
      IN  /\ p > 0
          /\ Eligible(store, id, now)
          /\ \A i \in 1..(p - 1) : ~Eligible(store, store.queue[i], now)

\* the job workerOnce picks is the first eligible one of the queue
ShortsPickIsFirstEligible ==
  \A w \in Ticks :
    WorkerStart(w) =>
      LET next == worker'[w].id
          q    == PosOf(shorts.queue, next)
      IN  /\ q > 0
          /\ ShortsEligible(shorts, next)
          /\ \A i \in 1..(q - 1) : ~ShortsEligible(shorts, shorts.queue[i])

\* C10: the job a tick picks is eligible and no job before it in the queue is
\* eligible, for the video worker and for the shorts worker.
C10_FirstEligiblePicked ==
  [][VideoPickIsFirstEligible /\ ShortsPickIsFirstEligible]_vars

\* a timer tick of the video worker is inside renderSpectralVideo for job id
VideoRendering(id) == \E t \in Ticks : tick[t].pc = "render" /\ tick[t].id = id

\* a timer tick of the shorts worker is inside renderShortFromS3 for job id
ShortRendering(id) == \E w \in Ticks : worker[w].pc = "render" /\ worker[w].id = id

\* C11: whenever a worker's render of job j is running, the persisted
\* document records j with status processing (the processing write has landed
\* before the render starts and no other write changes j's persisted status
\* before the render's own result is written).
C11_ProcessingWhileRendering ==
  /\ \A j \in JobIds :
       VideoRendering(j) => j \in Present /\ store.items[j].status = "processing"
  /\ \A j \in JobIds :
       ShortRendering(j) =>
         j \in DOMAIN shorts.items /\ shorts.items[j].status = "processing"

\* the job a tick picks has reached its persisted nextTryAt
NotPickedEarly ==
  \A t \in Ticks :
    TickStart(t) => store.items[tick'[t].id].nextTryAt <= now

\* the failed tick's write leaves the job in retry
RetryWritten(t, e) ==
  TickFail(t, e) /\ store'.items[tick[t].id].status = "retry"

\* the delay a failure imposes is backoff(attempts after the failure):
\* 4000 ms after the first failure, 8000 ms after the second
DelayIsBackoff ==
  \A t \in Ticks, e \in Errors :
    RetryWritten(t, e) =>
      LET r == store'.items[tick[t].id]
      IN  /\ r.nextTryAt - now = backoffMs(r.attempts)
          /\ r.attempts = 1 => r.nextTryAt - now = 4000
          /\ r.attempts = 2 => r.nextTryAt - now = 8000

\* a job that a failure has already delayed (persisted attempts >= 1, delay
\* backoff(attempts)) is given a longer delay by its next failure
DelaysIncrease ==
  \A t \in Ticks, e \in Errors :
    (RetryWritten(t, e) /\ tick[t].id \in Present
       /\ store.items[tick[t].id].attempts >= 1) =>
      backoffMs(store'.items[tick[t].id].attempts)
        > backoffMs(store.items[tick[t].id].attempts)

\* C12: a job in retry is not picked by a tick before its nextTryAt; the delay
\* between a failure and the earliest next attempt is backoff(attempts after
\* the failure); the successive delays imposed on a job strictly increase.
C12_BackoffTiming ==
  [][NotPickedEarly /\ DelayIsBackoff /\ DelaysIncrease]_vars

\* the first two parts of C12 alone
C12_PickAndDelay == [][NotPickedEarly /\ DelayIsBackoff]_vars

\* C13: backoff(n) = min(60000, 2000 * 2^n): 2000, 4000, 8000 for n = 0, 1, 2
\* and 60000 for n = 6; it never exceeds 60000 and is non-decreasing in n.
C13_BackoffFunction ==
  out # NoArg =>
    LET n == arg[1]
        m == arg[2]
    IN  /\ out[1] = (IF 2000 * (2 ^ n) < 60000 THEN 2000 * (2 ^ n) ELSE 60000)
        /\ n = 0 => out[1] = 2000
        /\ n = 1 => out[1] = 4000
        /\ n = 2 => out[1] = 8000
        /\ n = 6 => out[1] = 60000
        /\ out[1] <= 60000
        /\ n <= m => out[1] <= out[2]

\* backoff(6) has been computed and is the cap; backoff(4) is below it
C13_Witness ==
  out # NoArg /\ arg = << 4, 6 >> /\ out = << 32000, 60000 >>

\* the step in which shorts worker w leaves a render call that threw
ShortsThrewEnds(w) ==
  /\ worker[w].pc = "render" /\ worker'[w].pc # "render"
  /\ rend.pc = "threw" /\ rend.kind = "short" /\ rend.slot = w

\* the step in which video tick t leaves a render call that threw
VideoThrewEnds(t) ==
  /\ tick[t].pc = "render" /\ tick'[t].pc # "render"
  /\ rend.pc = "threw" /\ rend.kind = "video" /\ rend.slot = t

\* attempts of a record that may lack the field: (job.attempts || 0)
AttemptsOf(r) == IF "attempts" \in DOMAIN r THEN r.attempts ELSE 0

\* rec went from `before` to attempt/backoff bookkeeping: attempts + 1 and
\* retry with a nextTryAt, or error
Bookkept(before, rec) ==
  /\ "attempts" \in DOMAIN rec
  /\ rec.attempts = AttemptsOf(before) + 1
  /\ \/ rec.status = "error"
     \/ rec.status = "retry" /\ "nextTryAt" \in DOMAIN rec

\* a throw of renderSpectralVideo ends in the tick's bookkeeping write
VideoFailureBookkept ==
  \A t \in Ticks :
    VideoThrewEnds(t) =>
      /\ tick[t].id \in DOMAIN store'.items
      /\ Bookkept(tick[t].jobs.items[tick[t].id], store'.items[tick[t].id])
      /\ store'.items[tick[t].id].status = "retry"
           => store'.items[tick[t].id].nextTryAt
                = now + backoffMs(store'.items[tick[t].id].attempts)

\* a throw of renderShortFromS3 ends in the tick's bookkeeping write
ShortsFailureBookkept ==
  \A w \in Ticks :
    ShortsThrewEnds(w) =>
      /\ worker[w].id \in DOMAIN shorts'.items
      /\ Bookkept(worker[w].jobs.items[worker[w].id], shorts'.items[worker[w].id])

\* a worker waiting for a render call that threw goes on with its catch
\* block: no throw leaves the tick
ThrowIsCaught ==
  /\ \A w \in Ticks :
       (worker[w].pc = "render" /\ rend.pc = "threw" /\ rend.kind = "short"
          /\ rend.slot = w) => ENABLED RenderWorkerFail(w)
  /\ \A t \in Ticks :
       (tick[t].pc = "render" /\ rend.pc = "threw" /\ rend.kind = "video"
          /\ rend.slot = t) => ENABLED RenderTickFail(t)

\* C14: every failure of the render pipeline (download, transcription,
\* encoder, upload) is caught inside the tick and ends in attempt/backoff
\* bookkeeping - attempts incremented, job in retry with a nextTryAt or in
\* error - for the video worker and for the shorts worker.
C14_FailuresBookkept ==
  [][VideoFailureBookkept /\ ShortsFailureBookkept]_vars

\* the video half of C14
C14_VideoHalf == [][VideoFailureBookkept]_vars

\* the step in which shorts worker w leaves its render call
ShortsRenderEnds(w) ==
  /\ worker[w].pc = "render" /\ worker'[w].pc # "render"
  /\ rend.pc \in {"returned", "threw"} /\ rend.kind = "short" /\ rend.slot = w

\* ... and in that call the encoder run with the captioned graph failed
CaptionedRunFailedEnds(w) ==
  ShortsRenderEnds(w) /\ rend.captioned /\ rend.firstRun = "failed"

\* the attempt of worker w counts as failed: the job is written as retry or
\* error, or its attempts grows
AttemptFailed(w) ==
  LET before == worker[w].jobs.items[worker[w].id]
      after  == shorts'.items[worker[w].id]
  IN  after.status \in {"retry", "error"} \/ AttemptsOf(after) > AttemptsOf(before)

\* the job of worker w is written as done and its attempts is what it was
DoneSameAttempts(w) ==
  LET before == worker[w].jobs.items[worker[w].id]
      after  == shorts'.items[worker[w].id]
  IN  /\ after.status = "done"
      /\ AttemptsOf(after) = AttemptsOf(before)
      /\ ("attempts" \in DOMAIN after) = ("attempts" \in DOMAIN before)

\* after a failed captioned run the graph without captions was run once, in
\* the same call, and a failure of that run fails the attempt
FallbackRunOnce ==
  \A w \in Ticks :
    CaptionedRunFailedEnds(w) =>
      /\ rend.fallbackRuns = 1
      /\ rend.fallback \in {"ok", "failed"}
      /\ rend.fallback = "failed" => AttemptFailed(w)

\* C15 as stated: when the captioned encoder run fails, the captionless graph
\* is run once in the same attempt; the attempt counts as failed only if that
\* run fails too, and a successful fallback makes the job done without
\* incrementing attempts.
C15_FallbackThenRetry_AsStated ==
  [][/\ FallbackRunOnce
     /\ \A w \in Ticks :
          CaptionedRunFailedEnds(w) =>
            /\ AttemptFailed(w) => rend.fallback = "failed"
            /\ rend.fallback = "ok" => DoneSameAttempts(w)]_vars

\* C15 (amended): when the captioned encoder run fails, the captionless graph
\* is run once in the same attempt; the attempt counts as failed only if that
\* run fails too or the upload of its artifact fails, and a successful
\* fallback whose artifact is uploaded makes the job done without
\* incrementing attempts.
C15_FallbackThenRetry ==
  [][/\ FallbackRunOnce
     /\ \A w \in Ticks :
          CaptionedRunFailedEnds(w) =>
            /\ AttemptFailed(w) => (rend.fallback = "failed" \/ rend.err = ErrUpload)
            /\ (rend.fallback = "ok" /\ rend.pc = "returned") => DoneSameAttempts(w)]_vars

\* the worker has written done for a job whose captioned run failed and whose
\* run without captions succeeded
C15_Witness ==
  /\ rend.pc = "idle" /\ rend.kind = "short"
  /\ rend.captioned /\ rend.firstRun = "failed"
  /\ rend.fallbackRuns = 1 /\ rend.fallback = "ok"
  /\ rend.err = Undefined
  /\ \E j \in DOMAIN shorts.items :
       shorts.items[j].status = "done" /\ "attempts" \notin DOMAIN shorts.items[j]

\* C16: once a render call has returned or thrown, neither the temporary
\* input file nor the temporary output file it created exists.
C16_TempFilesRemoved ==
  rend.pc \in {"returned", "threw"} => ~rend.tmpIn /\ ~rend.tmpOut

\* the success half of C16: a call that returned has removed both files
C16_RemovedOnReturn == rend.pc = "returned" => ~rend.tmpIn /\ ~rend.tmpOut

\* the shorts worker leaves a render call in which transcription failed
TranscriptionFailedEnds(w) == ShortsRenderEnds(w) /\ rend.tr = "failed"

\* the transcription step ends with segments - the stub when the collaborator
\* is not configured or its call fails - and the encoder is run next
TranscriptionDegrades ==
  (rend.pc = "transcribe" /\ rend'.pc # "transcribe") =>
    /\ rend'.pc = "encode"
    /\ rend'.tr \in {"ok", "stub"}
    /\ rend'.tr = "stub" => rend'.lines = 1

\* C17: a failure of transcription never makes a job fail: with the
\* collaborator not configured or its call failing, the segmenter yields one
\* stub segment, the render goes on to the encoder and the job does not end
\* in error because of transcription.
C17_TranscriptionNeverFatal ==
  [][/\ TranscriptionDegrades
     /\ \A w \in Ticks :
          TranscriptionFailedEnds(w) => shorts'.items[worker[w].id].status # "error"]_vars

\* the record GET /api/video/:id/status answers with: jobs.items[id] of the
\* persisted document
StatusAnswer(doc, id) == doc.items[id]

\* C18: after a failed render attempt, whether the job goes to retry or to
\* error, the error field of the record a status query returns is the string
\* form of the most recent failure.
C18_LastErrorExposed ==
  [][\A t \in Ticks :
       VideoThrewEnds(t) =>
         /\ StatusAnswer(store', tick[t].id).status \in {"retry", "error"}
         /\ StatusAnswer(store', tick[t].id).error = rend.err]_vars

\* C18 for the jobs that are given up
C18_ErrorOnGiveUp ==
  [][\A t \in Ticks :
       (VideoThrewEnds(t) /\ StatusAnswer(store', tick[t].id).status = "error")
         => StatusAnswer(store', tick[t].id).error = rend.err]_vars

\* the record POST /api/generate-video builds: queued, attempts 0,
\* nextTryAt = createdAt = now, under an id no persisted record has
VideoEnqueueRecord ==
  \A f \in VideoKeys :
    EnqueueRead(f) =>
      LET r == enq'.jobs.items[enq'.id]
      IN  /\ enq'.id \notin Present
          /\ r.id = enq'.id /\ r.status = "queued"
          /\ "attempts" \in DOMAIN r /\ r.attempts = 0
          /\ "nextTryAt" \in DOMAIN r /\ r.nextTryAt = now /\ r.createdAt = now

\* its write adds that record only, appends the id to the queue, answers the
\* id and leaves every persisted record and queue entry as it was
VideoEnqueueFrame ==
  EnqueueWrite =>
    /\ DOMAIN store'.items = Present \cup {enq.id}
    /\ enq.id \notin Present
    /\ store'.items[enq.id] = enq.jobs.items[enq.id]
    /\ store'.queue = Append(store.queue, enq.id)
    /\ \A k \in Present : store'.items[k] = store.items[k]
    /\ acked' = acked \cup {enq.id}

\* the same for POST /api/shorts/request
ShortsEnqueueRecord ==
  \A f \in SourceKeys, m \in MaxSecondsInputs :
    ShortsRequestRead(f, m) =>
      LET r == sEnq'.jobs.items[sEnq'.id]
      IN  /\ sEnq'.id \notin DOMAIN shorts.items
          /\ r.id = sEnq'.id /\ r.status = "queued"
          /\ "attempts" \in DOMAIN r /\ r.attempts = 0
          /\ "nextTryAt" \in DOMAIN r /\ r.nextTryAt = now /\ r.createdAt = now

ShortsEnqueueFrame ==
  ShortsRequestWrite =>
    /\ DOMAIN shorts'.items = DOMAIN shorts.items \cup {sEnq.id}
    /\ sEnq.id \notin DOMAIN shorts.items
    /\ shorts'.items[sEnq.id] = sEnq.jobs.items[sEnq.id]
    /\ shorts'.queue = Append(shorts.queue, sEnq.id)
    /\ \A k \in DOMAIN shorts.items : shorts'.items[k] = shorts.items[k]

\* C19: enqueue adds exactly one record - queued, attempts 0,
\* nextTryAt = createdAt = now, fresh id - appends the id at the end of the
\* queue and answers it; every record and queue entry already persisted is
\* unchanged and keeps its order.
C19_EnqueueFrame ==
  [][/\ VideoEnqueueRecord /\ VideoEnqueueFrame
     /\ ShortsEnqueueRecord /\ ShortsEnqueueFrame]_vars

\* the video half of C19
C19_VideoHalf == [][VideoEnqueueRecord /\ VideoEnqueueFrame]_vars

\* the frame half of C19 on the shorts queue
C19_ShortsFrame == [][ShortsEnqueueFrame]_vars

\* a processVideoOnce invocation starts working in this step
VideoTickBegins == \E t \in Ticks : tick[t].pc = "idle" /\ tick'[t].pc # "idle"

\* a workerOnce invocation starts working in this step
ShortsTickBegins == \E w \in Ticks : worker[w].pc = "idle" /\ worker'[w].pc # "idle"

\* no id of the shorts queue is eligible
NoShortEligible ==
  \A i \in 1..Len(shorts.queue) : ~ShortsEligible(shorts, shorts.queue[i])

\* a video tick that finds no eligible job does nothing
VideoIdleTickIsNoop ==
  /\ FindIndex(store, now) = 0 => ~VideoTickBegins
  /\ \A t \in Ticks : TickNoop(t) => UNCHANGED << store, tick, renders, rend >>

\* a shorts tick that finds no eligible job does nothing
ShortsIdleTickIsNoop ==
  /\ NoShortEligible => ~ShortsTickBegins
  /\ \A w \in Ticks : WorkerNoop(w) => UNCHANGED << shorts, worker, rend >>

\* C20: a worker tick at which no job is eligible (queue empty, or no queued
\* id with status queued/retry and nextTryAt <= now) starts no render and
\* writes nothing: the persisted document is unchanged.
C20_IdleTickIsNoop == [][VideoIdleTickIsNoop /\ ShortsIdleTickIsNoop]_vars

\* the video half of C20
C20_VideoHalf == [][VideoIdleTickIsNoop]_vars

\* C21: mergeSegments is idempotent: merging the lines again with the same
\* maxLineChars gives the same number of lines with the same start, end and
\* text.
C21_MergeIdempotent ==
  Len(out) = 2 =>
    /\ Len(out[2]) = Len(out[1])
    /\ \A i \in 1..Len(out[1]) :
         /\ out[2][i].start = out[1][i].start
         /\ out[2][i].end = out[1][i].end
         /\ out[2][i].text = out[1][i].text

\* three segments have been merged into two lines, and merged again
C21_Witness ==
  /\ Len(out) = 2
  /\ Len(arg[1]) = 3
  /\ Len(out[1]) = 2
  /\ Len(out[2]) = 2

\* the words of a text, in order: its maximal runs of non-blank characters
RECURSIVE WordsFrom(_, _, _)
WordsFrom(s, i, cur) ==
  IF i > Len(s) THEN (IF cur = << >> THEN << >> ELSE << cur >>)
  ELSE IF s[i] \in Whitespace
       THEN (IF cur = << >> THEN << >> ELSE << cur >>) \o WordsFrom(s, i + 1, << >>)
       ELSE WordsFrom(s, i + 1, Append(cur, s[i]))

Words(s) == WordsFrom(s, 1, << >>)

\* the words of the texts of a list of segments or lines, in order
RECURSIVE AllWords(_)
AllWords(list) ==
  IF list = << >> THEN << >> ELSE Words(Head(list).text) \o AllWords(Tail(list))

\* a word of the input longer than maxChars
LongWord ==
  \E i \in 1..Len(arg[1]) :
    \E w \in 1..Len(Words(arg[1][i].text)) :
      Len(Words(arg[1][i].text)[w]) > arg[2]

\* C22 as stated: no line of mergeSegments is longer than maxLineChars unless
\* a single word of the input is longer than maxLineChars, and no word is
\* split across lines.
C22_LineLength_AsStated ==
  Len(out) >= 1 =>
    /\ \A i \in 1..Len(out[1]) : Len(out[1][i].text) > arg[2] => LongWord
    /\ AllWords(out[1]) = AllWords(arg[1])

\* C22: no line of mergeSegments is longer than maxLineChars unless it is the
\* trimmed text of a single segment that alone is longer than maxLineChars,
\* and no word is split across lines.
C22_LineLength ==
  Len(out) >= 1 =>
    /\ \A i \in 1..Len(out[1]) :
         Len(out[1][i].text) > arg[2] =>
           \E k \in 1..Len(arg[1]) : Trim(arg[1][k].text) = out[1][i].text
    /\ AllWords(out[1]) = AllWords(arg[1])

\* no word of the input is over-long, one line is, and the line next to it is
\* not
C22_Witness ==
  /\ Len(out) >= 1
  /\ Len(out[1]) = 2
  /\ ~LongWord
  /\ \E i \in 1..2 : Len(out[1][i].text) > arg[2]
  /\ \E i \in 1..2 : Len(out[1][i].text) <= arg[2]

\* texts joined in order by single spaces
RECURSIVE JoinTexts(_)
JoinTexts(texts) ==
  IF texts = << >> THEN << >>
  ELSE IF Len(texts) = 1 THEN texts[1]
  ELSE texts[1] \o << " " >> \o JoinTexts(Tail(texts))

\* the trimmed texts of a list of segments or lines, without the empty ones
RECURSIVE Chunks(_)
Chunks(list) ==
  IF list = << >> THEN << >>
  ELSE (IF Trim(Head(list).text) = << >> THEN << >>
        ELSE << Trim(Head(list).text) >>) \o Chunks(Tail(list))

RECURSIVE TextsOf(_)
TextsOf(list) ==
  IF list = << >> THEN << >> ELSE << Head(list).text >> \o TextsOf(Tail(list))

\* C23: the lines of mergeSegments are in chronological order and pairwise
\* non-overlapping, and their texts joined by single spaces are the trimmed
\* non-empty segment texts joined by single spaces.
C23_LinesPartitionText ==
  Len(out) >= 1 =>
    /\ \A i \in 1..Len(out[1]) : out[1][i].start <= out[1][i].end
    /\ \A i \in 1..(Len(out[1]) - 1) :
         /\ out[1][i].start < out[1][i + 1].start
         /\ out[1][i].end <= out[1][i + 1].start
    /\ JoinTexts(TextsOf(out[1])) = JoinTexts(Chunks(arg[1]))

\* three segments at 0-2, 2-3 and 3-10 have been merged with maxChars = 3
\* into more than one line
C23_Witness ==
  /\ Len(out) >= 1
  /\ arg[2] = 3
  /\ Len(arg[1]) = 3
  /\ << arg[1][1].start, arg[1][1].end >> = << 0, 2 >>
  /\ << arg[1][2].start, arg[1][2].end >> = << 2, 3 >>
  /\ << arg[1][3].start, arg[1][3].end >> = << 3, LongEnd >>
  /\ arg[1][1].text = << "a" >>
  /\ arg[1][2].text = << "b" >>
  /\ arg[1][3].text = << "c" >>
  /\ TextsOf(out[1]) = << << "a", " ", "b" >>, << "c" >> >>
  /\ << out[1][1].start, out[1][1].end >> = << 0, 3 >>
  /\ << out[1][2].start, out[1][2].end >> = << 3, LongEnd >>

\* the segment in which line i begins: the first one whose words reach past
\* the words of the lines before line i
FirstSegOf(i) ==
  LET before == Len(AllWords(SubSeq(out[1], 1, i - 1)))
      reach(k) == Len(AllWords(SubSeq(arg[1], 1, k))) > before
  IN  CHOOSE k \in 1..Len(arg[1]) : reach(k) /\ \A j \in 1..(k - 1) : ~reach(j)

\* every line ends where the next line's first segment starts, and the last
\* line ends where the last segment ends
LineEnds ==
  Len(out) >= 1 =>
    \A i \in 1..Len(out[1]) :
      out[1][i].end = IF i < Len(out[1]) THEN arg[1][FirstSegOf(i + 1)].start
                      ELSE arg[1][Len(arg[1])].end

\* C24: every line of mergeSegments starts at the start of the first segment
\* whose text it contains and ends at the start of the first segment of the
\* next line, the last line at the end of the last segment, also when some
\* segments have empty or blank text.
C24_LineSpans ==
  Len(out) >= 1 =>
    /\ \A i \in 1..Len(out[1]) : out[1][i].start = arg[1][FirstSegOf(i)].start
    /\ LineEnds

\* read from the left, a backslash takes the next character with it; what is
\* left must hold no ':', quote, newline or single backslash
RECURSIVE WellEscaped(_)
WellEscaped(s) ==
  IF s = << >> THEN TRUE
  ELSE IF Head(s) = Backslash
       THEN Len(s) >= 2 /\ WellEscaped(SubSeq(s, 3, Len(s)))
       ELSE Head(s) \notin {Colon, Quote, Newline} /\ WellEscaped(Tail(s))

\* C27: for every caption or title over an alphabet with ':', the quote, the
\* backslash and newline, the escaped text placed into a stage holds no
\* unescaped ':', quote, backslash or newline.
C27_EscapedText ==
  out # NoArg => WellEscaped(out[1]) /\ WellEscaped(out[2])

\* C25: each caption stage is enabled exactly at the clip-local times t with
\* start <= t < end of its line, so at every t at most one caption stage is
\* enabled, the instant where one line ends and the next begins included.
C25_HalfOpenGating ==
  out # NoArg =>
    \A t \in 0..out[4].dur :
      /\ \A i \in 1..Len(out[1]) :
           Between(t, out[1][i].from, out[1][i].to)
             <=> (out[1][i].from <= t /\ t < out[1][i].to)
      /\ \A i, j \in 1..Len(out[1]) :
           (Between(t, out[1][i].from, out[1][i].to)
              /\ Between(t, out[1][j].from, out[1][j].to)) => i = j

\* the stages of a graph that draw a caption
CaptionChains(g) == { i \in 1..Len(g) : g[i].filter = Word(<< "drawtext" >>) }

\* the stage before chain i: the nearest earlier chain that has an output
StageBefore(g, i) ==
  CHOOSE j \in 1..(i - 1) :
    /\ g[j].outputs # << >>
    /\ \A k \in (j + 1)..(i - 1) : g[k].outputs = << >>

\* the output labels of a graph are pairwise distinct
DistinctOutputs(g) ==
  \A i, j \in 1..Len(g) :
    \A a \in 1..Len(g[i].outputs), b \in 1..Len(g[j].outputs) :
      g[i].outputs[a] = g[j].outputs[b] => (i = j /\ a = b)

\* the mapped label is the output of the last stage
MapsLastOutput(g, label) ==
  LET last == CHOOSE j \in 1..Len(g) :
                g[j].outputs # << >> /\ \A k \in (j + 1)..Len(g) : g[k].outputs = << >>
  IN  g[last].outputs = << label >>

\* C26: the built filter graph is a simple chain: the output labels are
\* pairwise distinct, every caption stage has as its input exactly the output
\* label of the stage before it, and the mapped label is the output label of
\* the last stage.
C26_SimpleChain ==
  out # NoArg =>
    LET g == ParseGraph(out[2])
    IN  /\ DistinctOutputs(g)
        /\ \A i \in CaptionChains(g) :
             g[i].inputs = g[StageBefore(g, i)].outputs
        /\ MapsLastOutput(g, out[3])

\* the window the claim gives for a transcript with segments
ClaimedWindow ==
  LET requestedMax == MaxSecondsOf(arg[4])
  IN  << Max(0, Floor2(arg[2])),
         Min(requestedMax, Max(5, Ceil2(arg[3]))) >>

WindowBounds ==
  LET requestedMax == MaxSecondsOf(arg[4])
  IN  /\ out[1] >= 0
      /\ out[2] <= requestedMax
      /\ requestedMax >= 5 => out[2] >= 5

\* C28: clipStart = max(0, floor(start of the first segment)) and
\* clipDuration = min(requestedMax, max(5, ceil(end of the last segment)));
\* hence clipStart >= 0, clipDuration <= requestedMax, and clipDuration >= 5
\* whenever requestedMax >= 5.
C28_ClipWindow ==
  out # NoArg =>
    /\ arg[1] > 0 => out = ClaimedWindow
    /\ WindowBounds

\* C28 for renderShortFromS3 of part_004 alone
C28_Part004Half ==
  (out # NoArg /\ build = "part004") =>
    /\ arg[1] > 0 => out = ClaimedWindow
    /\ WindowBounds

\* Y is x to one decimal place (x10 is ten times x)
RoundsTo(y, x10) ==
  /\ 2 * y >= (2 * x10 - 1) * (LumaScale \div 10)
  /\ 2 * y < (2 * x10 + 1) * (LumaScale \div 10)

WhiteAndBlack ==
  /\ arg = << 255, 255, 255 >> => out = << 255 * LumaScale, "dark" >>
  /\ arg = << 0, 0, 0 >> => out = << 0, "light" >>

\* C29 as stated: #FFFFFF has Y = 255 and gets dark text, #000000 has Y = 0
\* and gets light text, and the brand bar #052962 has Y = 42.9 to one
\* decimal place and gets light text.
C29_AutoContrast_AsStated ==
  out # NoArg =>
    /\ WhiteAndBlack
    /\ arg = << 5, 41, 98 >> => (RoundsTo(out[1], 429) /\ out[2] = "light")

\* C29: #FFFFFF has Y = 255 and gets dark text, #000000 has Y = 0 and gets
\* light text, and the brand bar #052962 has Y = 37.5 to one decimal place
\* and gets light text.
C29_AutoContrast ==
  out # NoArg =>
    /\ WhiteAndBlack
    /\ arg = << 5, 41, 98 >> => (RoundsTo(out[1], 375) /\ out[2] = "light")

\* the text colour of the brand bar has been chosen
C29_Witness ==
  /\ arg = << 5, 41, 98 >>
  /\ out # NoArg
  /\ out[2] = "light"

\* a soft-delete or a restore writes the document
SoftDeleteWrites(s) == mslot[s].op = "sd" /\ mslot'[s].pc = "idle"
RestoreWrites(s) == mslot[s].op = "restore" /\ mslot'[s].pc = "idle"

\* C30: after a soft-delete of keys none of them is listed by /api/posts
\* until it is restored; a restore removes the flags of its keys and a
\* soft-delete only adds those of its keys, so the one after the other leaves
\* `deleted` as it was for keys not deleted before; neither changes `items`.
C30_SoftDeleteRestore ==
  [][/\ (listed = << >> /\ listed' # << >>) => listed'[1] \cap hiddenKeys = {}
     /\ \A s \in MetaSlots :
          /\ SoftDeleteWrites(s) =>
               /\ meta'.deleted = meta.deleted \cup mslot[s].keys
               /\ meta'.items = meta.items
          /\ RestoreWrites(s) =>
               /\ meta'.deleted = meta.deleted \ mslot[s].keys
               /\ meta'.items = meta.items]_vars

\* ADMIN_TOKEN is set and the header is absent or different
BadToken(provided) == arg[1] # Undefined /\ provided # arg[1]

\* the handler of a protected route begins
HandlerBegins ==
  \/ enq.pc = "idle" /\ enq'.pc # "idle"
  \/ force.pc = "idle" /\ force'.pc # "idle"
  \/ sEnq.pc = "idle" /\ sEnq'.pc # "idle"
  \/ sForce.pc = "idle" /\ sForce'.pc # "idle"
  \/ \E sl \in MetaSlots : mslot[sl].pc = "idle" /\ mslot'[sl].pc # "idle"

\* C31: when ADMIN_TOKEN is set, a request to a protected endpoint whose
\* x-admin-token is absent or different is answered 401 and changes no stored
\* state; no handler of a protected endpoint begins for it.
C31_UnauthorizedChangesNothing ==
  [][/\ (out' # out /\ BadToken(out'[2])) =>
          /\ out'[3] = "401"
          /\ UNCHANGED << videoVars, shortsVars, metaVars >>
     /\ HandlerBegins => (Len(out) = 3 /\ ~BadToken(out[2]))]_vars

\* a request without the token has been refused while a job was queued
C31_Witness ==
  /\ arg[1] = AdminToken
  /\ out = << "generate-video", Undefined, "401" >>
  /\ Len(store.queue) = 1

\* a process-now call is inside the render of job id
VideoForceRendering(id) == force.pc = "render" /\ force.id = id
ShortsForceRendering(id) == sForce.pc = "render" /\ sForce.id = id

\* process-now starts no render of a job a worker tick is rendering
ForceSparesTick ==
  /\ (force.pc = "mark" /\ force'.pc = "render") => ~VideoRendering(force.id)
  /\ (sForce.pc = "mark" /\ sForce'.pc = "render") => ~ShortRendering(sForce.id)

\* a worker tick starts no render of a job a process-now call is rendering
TickSparesForce ==
  /\ \A t \in Ticks :
       (tick[t].pc = "mark" /\ tick'[t].pc = "render")
         => ~VideoForceRendering(tick[t].id)
  /\ \A w \in Ticks :
       (worker[w].pc = "mark" /\ worker'[w].pc = "render")
         => ~ShortsForceRendering(worker[w].id)

\* C32: a job is never rendered by two activities at once: process-now starts
\* no render for a job that a worker tick is rendering, and a worker tick
\* starts none for a job that a process-now call is rendering.
C32_NoDoubleRender == [][ForceSparesTick /\ TickSparesForce]_vars

\* a handler begins for a job: it has read the document and is about to mark
\* the job processing
TickBeginsFor(id) ==
  \E t \in Ticks : tick[t].pc = "idle" /\ tick'[t].pc = "mark" /\ tick'[t].id = id
ForceBeginsFor(id) == force.pc = "idle" /\ force'.pc = "mark" /\ force'.id = id
WorkerBeginsFor(id) ==
  \E w \in Ticks : worker[w].pc = "idle" /\ worker'[w].pc = "shift" /\ worker'[w].id = id
ShortsForceBeginsFor(id) == sForce.pc = "idle" /\ sForce'.pc = "mark" /\ sForce'.id = id

VideoIsDone(id) == id \in DOMAIN store.items /\ store.items[id].status = "done"
ShortIsDone(id) == id \in DOMAIN shorts.items /\ shorts.items[id].status = "done"

\* C33: each job is rendered successfully at most once: once the persisted
\* status of a job is done, no worker tick and no process-now call that
\* begins afterwards starts another render for it.
C33_DoneIsNotRenderedAgain ==
  [][\A id \in JobIds :
       /\ VideoIsDone(id) => ~(TickBeginsFor(id) \/ ForceBeginsFor(id))
       /\ ShortIsDone(id) => ~(WorkerBeginsFor(id) \/ ShortsForceBeginsFor(id))]_vars

\* C34: under the scheduling of SpecLive every enqueued job eventually has a
\* terminal status (done or error) in the persisted document, and no job
\* keeps the status processing forever, also when ticks overlap.
Terminal(id) ==
  id \in Present /\ store.items[id].status \in {"done", "error"}

Processing(id) ==
  id \in Present /\ store.items[id].status = "processing"

C34_EventuallyTerminal ==
  \A id \in JobIds :
    /\ (id \in acked) ~> Terminal(id)
    /\ []<>(~Processing(id))

\* C35: when loading the job document failed with an error, the write of
\* that enqueue or worker tick removes no persisted record and no queue entry.
LoadFailed == Len(arg) = 2 /\ arg[2] = "error"

C35_FailedReadLosesNothing ==
  [][(LoadFailed /\ store' # store)
       => /\ \A id \in Present : id \in DOMAIN store'.items
          /\ \A id \in JobIds : InQueue(store, id) => InQueue(store', id)]_vars

\* C36: in every persisted state of the video job document the queue holds
\* no id twice and every id in the queue has a record in items, whatever
\* enqueues, worker ticks and process-now calls have run and overlapped.
NoDuplicates(q) ==
  \A i, j \in 1..Len(q) : i # j => q[i] # q[j]

C36_QueueWellFormed ==
  /\ NoDuplicates(store.queue)
  /\ \A i \in 1..Len(store.queue) : store.queue[i] \in DOMAIN store.items

\* both jobs were enqueued, a tick has finished one and taken it off the
\* queue, a process-now call has run, and nothing is under way
C36_Witness ==
  /\ acked = JobIds
  /\ forced >= 1
  /\ InFlight = 0
  /\ Len(store.queue) = 1
  /\ \E id \in Present :
       store.items[id].status = "done" /\ ~InQueue(store, id)

\* C37: every caption stage emitted has an enable interval [a, b] in
\* clip-local time with 0 <= a < b <= clipDuration; a caption line entirely
\* outside the clip window [clipStart, clipStart + clipDuration) gives no
\* stage, and a line partly inside is clamped to the window.
InsideWindow(ln, win) ==
  ln.end > win.start /\ ln.start < win.start + win.dur

C37_StagesInsideClip ==
  out # NoArg =>
    LET win   == out[4]
        lines == mergeSegments(arg[1], arg[2])
        kept  == SelectSeq(lines, LAMBDA ln : InsideWindow(ln, win))
    IN  /\ \A i \in 1..Len(out[1]) :
             /\ 0 <= out[1][i].from
             /\ out[1][i].from < out[1][i].to
             /\ out[1][i].to <= win.dur
        /\ Len(out[1]) = Len(kept)
        /\ \A i \in 1..Len(kept) :
             /\ out[1][i].from = Max(kept[i].start, win.start) - win.start
             /\ out[1][i].to = Min(kept[i].end, win.start + win.dur) - win.start

\* C38: in the job tracker of the direct generate-video endpoint the progress
\* of a job never decreases, is at most 99 while the status is running and is
\* 100 only when the status is done; once the status is done or error the
\* entry never changes again.
C38_TrackerProgress ==
  [][out.status # "none" =>
       /\ out'.progress >= out.progress
       /\ out'.status = "running" => out'.progress <= 99
       /\ out'.progress = 100 => out'.status = "done"
       /\ out.status \in {"done", "error"} => out' = out]_vars

\* C39: in the polling worker a job leaves status queued only through the
\* PATCH that follows its own successful render and upload, which sets status
\* done with outputUrl and caption; when processing a job fails at any step
\* its record is left unchanged and the worker goes on to the next queued job
\* of the same poll, so the job is attempted again on a later heartbeat.
WorkingOn == out.queued[out.i]

ProcessingFails ==
  \/ StepFails
  \/ out.pc = "job" /\ arg[WorkingOn].filename = Undefined /\ JobBegin

C39_PollingWorker ==
  [][/\ \A k \in 1..Len(arg) :
          (arg[k].status = "queued" /\ arg'[k].status # "queued")
            => /\ out.pc = "patch"
               /\ WorkingOn = k
               /\ arg'[k] = [arg[k] EXCEPT !.status = "done",
                                           !.outputUrl = DoneBody.outputUrl,
                                           !.caption = DoneBody.caption]
     /\ ProcessingFails => (arg' = arg /\ out' = NextJob(out))]_vars
====
